---- MODULE Spec2Model ----
(***************************************************************************)
(* ValutaTrade Hub: the rate aggregation cycle (RatesUpdater.run_update),  *)
(* the two provider clients, the snapshot / history store                  *)
(* (append_history, write_rates_snapshot), the cache reader (get_rate),   *)
(* the scheduler (run_periodic), the portfolio operations (show_portfolio, *)
(* deposit_funds, buy_currency, sell_currency), and the command shell:     *)
(* register, login, the portfolio commands and get-rate.                   *)
(*                                                                         *)
(* Data representation                                                     *)
(*   - a pair key "BTC_USD" is the tuple <<"BTC", "USD">>;                 *)
(*   - a timestamp string "%Y-%m-%dT%H:%M:%SZ" is a fixed-width sequence   *)
(*     of two decimal digits (Strftime); the code compares these strings   *)
(*     lexicographically (StrGeq), the properties talk of instants (TsVal);*)
(*   - a float rate is the exact rational <<numerator, denominator>>;      *)
(*   - a dict is a record [keys: insertion order, val: key -> value];      *)
(*   - a user name or password is the sequence of its characters;          *)
(*   - the "meta" bag of a record is left out (never read by the code).    *)
(***************************************************************************)
EXTENDS Integers, Sequences, FiniteSets, TLC

\* ------------------------------------------------------------------ bounds
MaxCycles == 2   \* run_update cycles started in one behaviour
MaxTick   == 2   \* distinct wall-clock seconds the clock can show
MaxHistory == 3  \* append_history is applied to a history shorter than this
MaxBatch  == 2   \* records in one batch handed to append_history
MaxBalance == 3  \* deposits and trades are followed while no balance exceeds this

\* ------------------------------------------------------- generic helpers
EmptyMap == [k \in {} |-> k]

Max(a, b) == IF a >= b THEN a ELSE b

RECURSIVE SeqToSet(_)
SeqToSet(s) == IF s = <<>> THEN {} ELSE {Head(s)} \cup SeqToSet(Tail(s))

\* The subsequences of the list `order` (its members in the list's order).
RECURSIVE SubSeqs(_)
SubSeqs(order) ==
    IF order = <<>> THEN {<<>>}
    ELSE LET rest == SubSeqs(Tail(order))
         IN rest \cup {<<Head(order)>> \o r : r \in rest}

\* ----------------------------------------------------------------- dicts
EmptyDict == [keys |-> <<>>, val |-> EmptyMap]

DictHas(d, k) == k \in DOMAIN d.val

\* An update that leaves the value of a key the dict already has.
RECURSIVE DictSetDefault(_, _)
DictSetDefault(d, e) ==
    IF e.keys = <<>> THEN d
    ELSE LET k == Head(e.keys)
             d1 == IF DictHas(d, k) THEN d
                   ELSE [keys |-> Append(d.keys, k), val |-> (k :> e.val[k]) @@ d.val]
         IN DictSetDefault(d1, [keys |-> Tail(e.keys), val |-> e.val])

\* dict.update(e): an existing key keeps its position and takes e's value,
\* a new key is appended in e's order.
RECURSIVE DictUpdate(_, _)
DictUpdate(d, e) ==
    IF e.keys = <<>> THEN d
    ELSE LET k == Head(e.keys)
             d1 == [keys |-> IF DictHas(d, k) THEN d.keys ELSE Append(d.keys, k),
                    val  |-> (k :> e.val[k]) @@ d.val]
         IN DictUpdate(d1, [keys |-> Tail(e.keys), val |-> e.val])

\* ------------------------------------------------------------ clock, time
\* Wall-clock seconds the system clock can show. time.gmtime() and
\* datetime.now() read the wall clock, which may be stepped backwards.
Clock == {8 + i : i \in 1..MaxTick}

\* time.strftime("%Y-%m-%dT%H:%M:%SZ", ...): zero-padded, fixed width.
Strftime(t) == <<t \div 10, t % 10>>

\* _utc_now_iso_z(): the same fixed-width format.
UtcNowIsoZ(t) == Strftime(t)

\* The instant a fixed-width timestamp string denotes.
TsVal(s) == IF s = <<>> THEN 0 ELSE s[1] * 10 + s[2]

\* Python's str >= str: lexicographic comparison of the characters.
RECURSIVE StrGeq(_, _)
StrGeq(a, b) ==
    IF b = <<>> THEN TRUE
    ELSE IF a = <<>> THEN FALSE
    ELSE IF Head(a) > Head(b) THEN TRUE
    ELSE IF Head(a) < Head(b) THEN FALSE
    ELSE StrGeq(Tail(a), Tail(b))

\* ------------------------------------------------------- currency registry
REGISTRY == {"USD", "EUR", "GBP", "RUB", "BTC", "ETH", "SOL"}

\* A registry that knows every code.
GetCurrencyAny(code) == TRUE

\* get_currency(code): the code, or the failure it raises.
GetCurrencyOk(code) == code \in REGISTRY

\* ----------------------------------------------------------- ParserConfig
\* ParserConfig() as update-rates builds it: base USD, crypto codes quoted
\* by CoinGecko, fiat codes quoted by ExchangeRate-API, the two lists
\* disjoint. One code of each list stands for the three the default names.
BASE_CURRENCY == "USD"
CRYPTO_CURRENCIES == <<"BTC">>
FIAT_CURRENCIES == <<"EUR">>
EXCHANGERATE_API_KEY == TRUE

PairKey(from, to) == <<from, to>>

\* ------------------------------------------------------------- HTTP inputs
\* The quotes a provider sends: one that is not positive, one that is.
Prices == {0, 1}

\* A JSON body maps currency codes to quotes; a code may be missing.
Bodies(codes) ==
    UNION {[SeqToSet(ks) -> Prices] : ks \in SubSeqs(codes)}

\* kind: "neterr" requests.RequestException, "http" status != 200,
\* "nonjson" status 200 with a body that is not a JSON object,
\* "notsuccess" / "norates" ExchangeRate-API payloads without usable rates,
\* "json" a well-formed payload with the quotes in `body`.
Response(kind, body) == [kind |-> kind, body |-> body]

CoinGeckoResponses ==
    {Response(k, EmptyMap) : k \in {"neterr", "http", "nonjson"}}
    \cup {Response("json", b) : b \in Bodies(CRYPTO_CURRENCIES)}

ExchangeRateResponses ==
    {Response(k, EmptyMap) : k \in {"neterr", "http", "nonjson", "notsuccess", "norates"}}
    \cup {Response("json", b) : b \in Bodies(FIAT_CURRENCIES)}

\* ---------------------------------------------------------- fetch results
\* kind "ok": data is the returned dict; "ApiRequestError": reason says why;
\* "Exception": an exception that is not an ApiRequestError left fetch_rates.
FetchOk(data) == [kind |-> "ok", data |-> data, reason |-> ""]
FetchApiError(reason) == [kind |-> "ApiRequestError", data |-> EmptyDict, reason |-> reason]
FetchOtherError(reason) == [kind |-> "Exception", data |-> EmptyDict, reason |-> reason]

RateRecord(rate, ts, source) == [rate |-> rate, timestamp |-> ts, source |-> source]

\* float(x) of an integer quote, and 1.0 / float(x), as exact rationals.
Float(x) == <<x, 1>>
Reciprocal(x) == <<1, x>>
RatePositive(r) == r[1] > 0 /\ r[2] > 0

\* ------------------------------------------------------- CoinGeckoClient
CRYPTO_ID_MAP == <<"BTC", "ETH", "SOL">>

\* The loop over CRYPTO_ID_MAP.items(): a configured currency whose quote
\* cannot be read raises ApiRequestError for the whole response.
RECURSIVE CoinGeckoLoop(_, _, _, _)
CoinGeckoLoop(codes, body, ts, out) ==
    IF codes = <<>> THEN FetchOk(out)
    ELSE LET code == Head(codes)
         IN IF code \notin SeqToSet(CRYPTO_CURRENCIES)
            THEN CoinGeckoLoop(Tail(codes), body, ts, out)
            ELSE IF code \notin DOMAIN body
            THEN FetchApiError("format")
            ELSE LET pair == PairKey(code, BASE_CURRENCY)
                     rec  == RateRecord(Float(body[code]), ts, "CoinGecko")
                 IN CoinGeckoLoop(Tail(codes), body, ts,
                                  DictUpdate(out, [keys |-> <<pair>>, val |-> (pair :> rec)]))

CoinGeckoFetchRates(resp, t) ==
    IF resp.kind = "neterr" THEN FetchApiError("network")
    ELSE IF resp.kind = "http" THEN FetchApiError("HTTP")
    ELSE IF resp.kind = "nonjson" THEN FetchOtherError("JSONDecodeError")
    ELSE CoinGeckoLoop(CRYPTO_ID_MAP, resp.body, Strftime(t), EmptyDict)

\* ------------------------------------------------- ExchangeRateApiClient
\* The loop over FIAT_CURRENCIES: a missing code is skipped, a quote <= 0
\* raises ApiRequestError for the whole response.
RECURSIVE ExchangeRateLoop(_, _, _, _)
ExchangeRateLoop(codes, rates, ts, out) ==
    IF codes = <<>> THEN FetchOk(out)
    ELSE LET code == Head(codes)
         IN IF code = BASE_CURRENCY \/ code \notin DOMAIN rates
            THEN ExchangeRateLoop(Tail(codes), rates, ts, out)
            ELSE IF rates[code] <= 0
            THEN FetchApiError("badrate")
            ELSE LET pair == PairKey(code, BASE_CURRENCY)
                     rec  == RateRecord(Reciprocal(rates[code]), ts, "ExchangeRate-API")
                 IN ExchangeRateLoop(Tail(codes), rates, ts,
                                     DictUpdate(out, [keys |-> <<pair>>, val |-> (pair :> rec)]))

ExchangeRateFetchRates(resp, t) ==
    IF ~EXCHANGERATE_API_KEY THEN FetchApiError("nokey")
    ELSE IF resp.kind = "neterr" THEN FetchApiError("network")
    ELSE IF resp.kind = "http" THEN FetchApiError("HTTP")
    ELSE IF resp.kind = "nonjson" THEN FetchOtherError("JSONDecodeError")
    ELSE IF resp.kind = "notsuccess" THEN FetchApiError("notsuccess")
    ELSE IF resp.kind = "norates" THEN FetchApiError("norates")
    ELSE ExchangeRateLoop(FIAT_CURRENCIES, resp.body, Strftime(t), EmptyDict)

\* -------------------------------------------------- the configured clients
\* update-rates builds RatesUpdater(clients=[CoinGeckoClient, ExchangeRateApiClient]).
clients == <<"CoinGeckoClient", "ExchangeRateApiClient">>

ClientResponses(cls) ==
    IF cls = "CoinGeckoClient" THEN CoinGeckoResponses ELSE ExchangeRateResponses

\* client.fetch_rates(), dispatched on the client's class.
FetchRates(cls, resp, t) ==
    IF cls = "CoinGeckoClient" THEN CoinGeckoFetchRates(resp, t)
    ELSE ExchangeRateFetchRates(resp, t)

\* client.__class__.__name__.lower()
ClassNameLower(cls) ==
    IF cls = "CoinGeckoClient" THEN "coingeckoclient" ELSE "exchangerateapiclient"

\* Python's `sub in name` for the names and needles that occur.
Contains(name, sub) ==
    <<name, sub>> \in {<<"coingeckoclient", "coingecko">>,
                      <<"coingeckoclient", "gecko">>,
                      <<"exchangerateapiclient", "exchange">>,
                      <<"exchangerateapiclient", "exchangerate">>}

\* The `source` arguments tried; "" stands for None (both are falsy).
Sources == {"", "coingecko", "exchangerate"}

\* The two `continue` tests of the client loop: TRUE when the client is
\* skipped under the filter `source`.
FilteredOut(cls, source) ==
    /\ source # ""
    /\ \/ source = "coingecko" /\ ~Contains(ClassNameLower(cls), "coingecko")
       \/ /\ source \in {"exchangerate", "exchangerate-api", "exchangerateapi"}
          /\ ~Contains(ClassNameLower(cls), "exchange")

\* -------------------------------------------------------------- the files
\* One shape for every file content. st: "missing" no such file, "empty" a
\* file of zero bytes (opened for writing, nothing written yet), "{}" the
\* text ensure_storage writes, "snapshot" {"pairs": .., "last_refresh": ..},
\* "history" a JSON array of history records.
Doc(st, pairs, last_refresh, data) ==
    [st |-> st, pairs |-> pairs, last_refresh |-> last_refresh, data |-> data]

Missing == Doc("missing", EmptyMap, <<>>, <<>>)
Truncated == Doc("empty", EmptyMap, <<>>, <<>>)
EmptyObject == Doc("{}", EmptyMap, <<>>, <<>>)
SnapshotDoc(pairs, last_refresh) == Doc("snapshot", pairs, last_refresh, <<>>)
HistoryDoc(data) == Doc("history", EmptyMap, <<>>, data)

RATES_FILE_PATH == "rates.json"
HISTORY_FILE_PATH == "exchange_rates.json"

\* path.with_suffix(path.suffix + ".tmp")
TmpPath(path) ==
    IF path = RATES_FILE_PATH THEN "rates.json.tmp" ELSE "exchange_rates.json.tmp"

FileNames == {RATES_FILE_PATH, HISTORY_FILE_PATH,
              TmpPath(RATES_FILE_PATH), TmpPath(HISTORY_FILE_PATH)}

\* read_json(path, default), then .get("pairs", {}) as run_update does:
\* a missing, empty or pair-less file yields no pairs.
ReadPairs(doc) == IF doc.st = "snapshot" THEN doc.pairs ELSE EmptyMap

\* read_json(history_path, default=[]) with the isinstance(data, list) test.
ReadHistory(doc) == IF doc.st = "history" THEN doc.data ELSE <<>>

\* --------------------------------------------------------------- the state
Procs == {1, 2}

\* The process that reads the cache (get_rate).
Reader == 0

VARIABLES
    files,            \* file name -> content
    fd,               \* per process: the file its open descriptor writes to
    pc,               \* per process: position in run_update
    source,           \* per process: the source argument of the cycle
    idx,              \* per process: index of the next client in the loop
    combined,         \* per process: the combined dict
    errors,           \* per process: the errors list
    calls,            \* per process: the fetch_rates calls made, in order
    now_z,            \* per process: now_z
    current_pairs,    \* per process: current_pairs
    pairs_snapshot,   \* per process: pairs_snapshot
    history_records,  \* per process: history_records
    data,             \* per process: append_history's list `data`
    result,           \* per process: how the last run_update ended
    pre,              \* per process: the files when the cycle started
    cycles,           \* number of cycles started
    proposed,         \* pair key -> latest instant among the candidates merged
                      \* by the cycles before the current one
    returned,         \* pair key -> latest instant among the records any
                      \* client has returned so far
    rpc,              \* the reader's position
    seen,             \* what the reader last read from the snapshot file
    ask,              \* the arguments and the clock of the last get_rate call
    quote,            \* what the last get_rate call returned or raised
    portfolios,       \* portfolios.json: the wallets of the logged-in user
    valuation,        \* what the last show_portfolio call returned or raised
    trade,            \* what the last deposit_funds / buy_currency /
                      \* sell_currency call did
    shown,            \* what the last command of the shell printed
    session,          \* the shell's session: user_id and username
    users             \* users.json: the list of user records

locals == <<source, idx, combined, errors, calls, now_z, current_pairs,
            pairs_snapshot, history_records, data, result, pre>>
ghosts == <<proposed, returned>>
shell == <<session, users>>
account == <<portfolios, valuation, trade, shown, shell>>
reader == <<rpc, seen, ask, quote, account>>
vars == <<files, fd, pc, locals, cycles, ghosts, reader>>

\* Pair keys the configured clients can return.
Keys == {PairKey(c, BASE_CURRENCY) :
            c \in SeqToSet(CRYPTO_CURRENCIES) \cup SeqToSet(FIAT_CURRENCIES)}

NoResult == [kind |-> "none", updated |-> 0, last_refresh |-> <<>>, errors |-> <<>>]

\* No get_rate call has been made, or its caller has dropped the result.
NoAsk == [from |-> "", to |-> "", now |-> <<0, 0>>]
NoQuote == [kind |-> "none", pair |-> <<>>, rate |-> <<>>, updated_at |-> <<>>,
            source |-> ""]

\* No show_portfolio, buy_currency or sell_currency call and no get-rate
\* command has been made, and portfolios.json holds no wallets.
NoValuation == [kind |-> "none", base |-> "", wallets |-> <<>>, total |-> 0,
                rates_ok |-> TRUE, nows |-> EmptyMap]
NoTrade == [op |-> "none", kind |-> "none", currency |-> "", amount |-> 0,
            quote |-> NoQuote, now |-> <<0, 0>>, before |-> EmptyMap]
NoShown == [cmd |-> "", kind |-> "none", lines |-> <<>>, derived |-> FALSE]

\* Python's None, and a value that is not None.
None == <<>>
Some(x) == <<x>>

\* `session = {"user_id": None, "username": None}`: nobody is logged in.
NoSession == [user_id |-> None, username |-> None]

NoAccount ==
    /\ portfolios = EmptyMap
    /\ valuation = NoValuation
    /\ trade = NoTrade
    /\ shown = NoShown
    /\ session = NoSession
    /\ users = <<>>

Init ==
    /\ files \in {[f \in FileNames |-> IF f = RATES_FILE_PATH THEN r ELSE Missing] :
                     r \in {Missing, EmptyObject}}
    /\ fd = [p \in Procs \cup {Reader} |-> "none"]
    /\ pc = [p \in Procs |-> "idle"]
    /\ source = [p \in Procs |-> ""]
    /\ idx = [p \in Procs |-> 1]
    /\ combined = [p \in Procs |-> EmptyDict]
    /\ errors = [p \in Procs |-> <<>>]
    /\ calls = [p \in Procs |-> <<>>]
    /\ now_z = [p \in Procs |-> <<>>]
    /\ current_pairs = [p \in Procs |-> EmptyMap]
    /\ pairs_snapshot = [p \in Procs |-> EmptyMap]
    /\ history_records = [p \in Procs |-> <<>>]
    /\ data = [p \in Procs |-> <<>>]
    /\ result = [p \in Procs |-> NoResult]
    /\ pre = [p \in Procs |-> files]
    /\ cycles = 0
    /\ proposed = [k \in Keys |-> 0]
    /\ returned = [k \in Keys |-> 0]
    /\ rpc = "idle"
    /\ seen = Missing
    /\ ask = NoAsk
    /\ quote = NoQuote
    /\ NoAccount

\* ------------------------------------------------------------- run_update
SnapshotEntry(rate, ts, src) == [rate |-> rate, updated_at |-> ts, source |-> src]

HistoryRecord(from_code, to_code, rate, ts, src) ==
    [id |-> <<from_code, to_code, ts>>, from_currency |-> from_code,
     to_currency |-> to_code, rate |-> rate, timestamp |-> ts, source |-> src]

\* What fetch_rates can do for a client of class cls, given the kinds of
\* response the provider may send.
Outcomes(cls, kinds) ==
    {FetchRates(cls, resp, t) :
        resp \in {r \in ClientResponses(cls) : r.kind \in kinds}, t \in Clock}

\* The state of the client loop: combined, errors, the calls made so far
\* and the exception (if any) that left the loop.
LoopInit == [combined |-> EmptyDict, errors |-> <<>>, calls |-> <<>>, raised |-> ""]

\* One pass of the loop body for a selected client whose fetch_rates did
\* `got`: data is merged into combined, an ApiRequestError is collected in
\* errors, any other exception propagates.
LoopBody(acc, cls, got) ==
    [combined |-> IF got.kind = "ok" THEN DictUpdate(acc.combined, got.data)
                  ELSE acc.combined,
     errors   |-> IF got.kind = "ApiRequestError"
                  THEN Append(acc.errors, [client |-> cls, reason |-> got.reason])
                  ELSE acc.errors,
     calls    |-> Append(acc.calls, [client |-> cls, kind |-> got.kind, data |-> got.data]),
     raised   |-> IF got.kind = "Exception" THEN got.reason ELSE ""]

\* The whole `for client in self.clients` loop from client i on; plan[i] is
\* what client i's fetch_rates does if it is called.
RECURSIVE ClientLoop(_, _, _, _)
ClientLoop(i, src, plan, acc) ==
    IF i > Len(clients) \/ acc.raised # "" THEN acc
    ELSE IF FilteredOut(clients[i], src) THEN ClientLoop(i + 1, src, plan, acc)
    ELSE ClientLoop(i + 1, src, plan, LoopBody(acc, clients[i], plan[i]))

\* `if not combined and errors: raise ApiRequestError(...)`
AllFailed(comb, errs) == comb.keys = <<>> /\ errs # <<>>

\* The freshness test left out: every candidate replaces the entry.
NotNewerAbsent(prev_ts, ts) == FALSE

\* The freshness test with `>` for `>=`: a tie replaces the entry.
NotNewerStrict(prev_ts, ts) == prev_ts # <<>> /\ StrGeq(prev_ts, ts) /\ prev_ts # ts

\* `if prev_ts and prev_ts >= ts: continue`
NotNewer(prev_ts, ts) == prev_ts # <<>> /\ StrGeq(prev_ts, ts)

\* The loop over combined.items(). acc.hist is history_records, acc.snap is
\* pairs_snapshot. A pair with an unknown code raises inside the try and is
\* skipped; a valid record is appended to history_records before the
\* freshness test.
RECURSIVE MergeLoop(_, _, _, _)
MergeLoop(keys, val, cur, acc) ==
    IF keys = <<>> THEN acc
    ELSE LET pair == Head(keys)
             info == val[pair]
             from_code == pair[1]
             to_code == pair[2]
             key == PairKey(from_code, to_code)
             rec == HistoryRecord(from_code, to_code, info.rate, info.timestamp, info.source)
             acc1 == [acc EXCEPT !.hist = Append(@, rec)]
         IN IF ~(GetCurrencyOk(from_code) /\ GetCurrencyOk(to_code))
            THEN MergeLoop(Tail(keys), val, cur, acc)
            ELSE IF key \in DOMAIN cur /\ NotNewer(cur[key].updated_at, info.timestamp)
            THEN MergeLoop(Tail(keys), val, cur, acc1)
            ELSE MergeLoop(Tail(keys), val, cur,
                           [acc1 EXCEPT !.snap =
                               (key :> SnapshotEntry(info.rate, info.timestamp, info.source)) @@ @])

Merge(comb, cur) == MergeLoop(comb.keys, comb.val, cur, [hist |-> <<>>, snap |-> EmptyMap])

\* The snapshot written from pairs_snapshot alone, without the entries
\* already on disk.
MergedPairsForgetful(cur, snap) == snap

\* merged_pairs = dict(current_pairs); merged_pairs.update(pairs_snapshot)
MergedPairs(cur, snap) == snap @@ cur

\* append_history's dedup: a record is appended unless its id is among the
\* ids the file held when it was read.
ExistingIds(old) == {old[i].id : i \in DOMAIN old}

RECURSIVE AppendNew(_, _, _)
AppendNew(old, existing, records) ==
    IF records = <<>> THEN old
    ELSE IF Head(records).id \in existing
         THEN AppendNew(old, existing, Tail(records))
         ELSE AppendNew(Append(old, Head(records)), existing, Tail(records))

\* The list written back without the records the file held.
AppendHistoryFresh(doc, records) == AppendNew(<<>>, {}, records)

\* The list append_history writes back.
AppendHistory(doc, records) ==
    LET old == ReadHistory(doc) IN AppendNew(old, ExistingIds(old), records)

\* What run_update returns.
OkResult(snap, now, errs) ==
    [kind |-> "ok", updated |-> Cardinality(DOMAIN snap), last_refresh |-> now,
     errors |-> errs]

Raised(kind, errs) == [NoResult EXCEPT !.kind = kind, !.errors = errs]

\* ------------------------------------------------- the cycle, as one step
ValidKey(k) == GetCurrencyOk(k[1]) /\ GetCurrencyOk(k[2])

\* proposed, brought up to date with the cycle process p has just run.
ProposedAfter(p) ==
    [k \in Keys |->
        IF result[p].kind = "ok" /\ DictHas(combined[p], k) /\ ValidKey(k)
        THEN Max(proposed[k], TsVal(combined[p].val[k].timestamp))
        ELSE proposed[k]]

\* returned, brought up to date with the dict `got` a client has returned.
ReturnedAfter(ret, got) ==
    [k \in Keys |-> IF DictHas(got, k) THEN Max(ret[k], TsVal(got.val[k].timestamp))
                    ELSE ret[k]]

RECURSIVE ReturnedAfterAll(_, _)
ReturnedAfterAll(ret, cs) ==
    IF cs = <<>> THEN ret
    ELSE ReturnedAfterAll(ReturnedAfter(ret, Head(cs).data), Tail(cs))

\* A client that is not called.
NoCall == [kind |-> "skipped", data |-> EmptyDict, reason |-> ""]

\* What the clients from i on do in one cycle: one outcome for each client
\* that is called, NoCall for a client the filter excludes and for every
\* client after one whose exception left the loop.
RECURSIVE PlansFrom(_, _, _)
PlansFrom(i, src, kinds) ==
    IF i > Len(clients) THEN {<<>>}
    ELSE LET rest == PlansFrom(i + 1, src, kinds)
             outs == Outcomes(clients[i], kinds)
             none == [j \in 1..(Len(clients) - i) |-> NoCall]
         IN IF FilteredOut(clients[i], src)
            THEN {<<NoCall>> \o r : r \in rest}
            ELSE {<<o>> \o r : o \in {x \in outs : x.kind # "Exception"}, r \in rest}
                 \cup {<<o>> \o none : o \in {x \in outs : x.kind = "Exception"}}

\* The document written to the tmp file and never renamed into place.
AtomicWriteJsonTmpOnly(fs, path, doc) == [fs EXCEPT ![TmpPath(path)] = doc]

\* _atomic_write_json run to its end: the target holds the document and
\* the tmp file is gone.
AtomicWriteJson(fs, path, doc) == [fs EXCEPT ![path] = doc, ![TmpPath(path)] = Missing]

\* The kinds of response the providers send in the cycles explored.
MainKinds == {"neterr", "http", "nonjson", "json"}

\* The client loop of run_update(src), for every source in srcs and every
\* way the clients can answer with a response of one of the given kinds.
Loops(srcs, kinds) ==
    UNION {{[source |-> src, loop |-> ClientLoop(1, src, plan, LoopInit)]
               : plan \in PlansFrom(1, src, kinds)} : src \in srcs}

\* The client loops of the cycles explored.
MainLoops == Loops(Sources, MainKinds)

\* run_update(src) from its first line to its return or raise, without
\* interruption, for one way `run` the client loop can go: the all-failed
\* test, the merge against the snapshot on disk, append_history and
\* write_rates_snapshot.
Cycle(p, run) ==
    LET loop == run.loop
        stop == IF loop.raised # "" THEN loop.raised
                ELSE IF AllFailed(loop.combined, loop.errors) THEN "AllSourcesFailed"
                ELSE ""
    IN /\ source' = [source EXCEPT ![p] = run.source]
       /\ idx' = [idx EXCEPT ![p] = Len(loop.calls) + 1]
       /\ combined' = [combined EXCEPT ![p] = loop.combined]
       /\ errors' = [errors EXCEPT ![p] = loop.errors]
       /\ calls' = [calls EXCEPT ![p] = loop.calls]
       /\ returned' = ReturnedAfterAll(returned, loop.calls)
       /\ IF stop # ""
          THEN /\ result' = [result EXCEPT ![p] =
                                Raised(stop, IF loop.raised # "" THEN <<>> ELSE loop.errors)]
               /\ now_z' = [now_z EXCEPT ![p] = <<>>]
               /\ current_pairs' = [current_pairs EXCEPT ![p] = EmptyMap]
               /\ pairs_snapshot' = [pairs_snapshot EXCEPT ![p] = EmptyMap]
               /\ history_records' = [history_records EXCEPT ![p] = <<>>]
               /\ data' = [data EXCEPT ![p] = <<>>]
               /\ files' = files
          ELSE \E t \in Clock :
               LET now  == UtcNowIsoZ(t)
                   cur  == ReadPairs(files[RATES_FILE_PATH])
                   m    == Merge(loop.combined, cur)
                   hist == AppendHistory(files[HISTORY_FILE_PATH], m.hist)
               IN /\ result' = [result EXCEPT ![p] = OkResult(m.snap, now, loop.errors)]
                  /\ now_z' = [now_z EXCEPT ![p] = now]
                  /\ current_pairs' = [current_pairs EXCEPT ![p] = cur]
                  /\ pairs_snapshot' = [pairs_snapshot EXCEPT ![p] = m.snap]
                  /\ history_records' = [history_records EXCEPT ![p] = m.hist]
                  /\ data' = [data EXCEPT ![p] = hist]
                  /\ files' = AtomicWriteJson(
                                 AtomicWriteJson(files, HISTORY_FILE_PATH, HistoryDoc(hist)),
                                 RATES_FILE_PATH, SnapshotDoc(MergedPairs(cur, m.snap), now))

\* run_update(src) as a whole, for every source argument and every way the
\* configured clients can answer.
RunUpdate(p) ==
    /\ pc[p] = "idle"
    /\ cycles < MaxCycles
    /\ cycles' = cycles + 1
    /\ pc' = [pc EXCEPT ![p] = "done"]
    /\ pre' = [pre EXCEPT ![p] = files]
    /\ \E run \in MainLoops : Cycle(p, run)
    /\ UNCHANGED <<fd, proposed, reader>>

\* The source arguments of Sources and one more: "gecko" is part of one
\* client's name without being one of the words the client loop tests for.
FilterSources == Sources \cup {"gecko"}

FilterLoops == Loops(FilterSources, MainKinds)

\* run_update(src) as a whole, for the source arguments of FilterSources.
RunUpdateFiltered(p) ==
    /\ pc[p] = "idle"
    /\ cycles < MaxCycles
    /\ cycles' = cycles + 1
    /\ pc' = [pc EXCEPT ![p] = "done"]
    /\ pre' = [pre EXCEPT ![p] = files]
    /\ \E run \in FilterLoops : Cycle(p, run)
    /\ UNCHANGED <<fd, proposed, reader>>

\* The client loop of run_update(source="exchangerate") when the
\* ParserConfig names, next to EUR, a fiat code the registry does not know
\* (FIAT_CURRENCIES = ("JPY", "EUR") or ("EUR", "JPY")): the one client
\* called is ExchangeRateApiClient, for every payload over these codes.
ForeignLoops ==
    {[source |-> "exchangerate",
      loop   |-> LoopBody(LoopInit, "ExchangeRateApiClient",
                          ExchangeRateLoop(codes, body, Strftime(t), EmptyDict))] :
        codes \in {<<"JPY", "EUR">>, <<"EUR", "JPY">>},
        body \in Bodies(<<"JPY", "EUR">>),
        t \in Clock}

\* run_update as a whole under such a configuration.
RunUpdateForeign(p) ==
    /\ pc[p] = "idle"
    /\ cycles < MaxCycles
    /\ cycles' = cycles + 1
    /\ pc' = [pc EXCEPT ![p] = "done"]
    /\ pre' = [pre EXCEPT ![p] = files]
    /\ \E run \in ForeignLoops : Cycle(p, run)
    /\ UNCHANGED <<fd, proposed, reader>>

\* The client loop of run_update() when the ParserConfig lists BTC among
\* the fiat codes too (FIAT_CURRENCIES = ("BTC",)): CoinGeckoClient and
\* then ExchangeRateApiClient are called and each may return BTC_USD, with
\* its own timestamp.
OverlapLoops ==
    {[source |-> "",
      loop   |-> LoopBody(LoopBody(LoopInit, "CoinGeckoClient", CoinGeckoFetchRates(resp, t1)),
                          "ExchangeRateApiClient",
                          ExchangeRateLoop(<<"BTC">>, body, Strftime(t2), EmptyDict))] :
        resp \in {r \in CoinGeckoResponses : r.kind \in {"http", "json"}},
        body \in Bodies(<<"BTC">>),
        t1 \in Clock, t2 \in Clock}

\* run_update as a whole under such a configuration.
RunUpdateOverlap(p) ==
    /\ pc[p] = "idle"
    /\ cycles < MaxCycles
    /\ cycles' = cycles + 1
    /\ pc' = [pc EXCEPT ![p] = "done"]
    /\ pre' = [pre EXCEPT ![p] = files]
    /\ \E run \in OverlapLoops : Cycle(p, run)
    /\ UNCHANGED <<fd, proposed, reader>>

\* The locals of run_update go out of scope.
DropLocals(p) ==
    /\ source' = [source EXCEPT ![p] = ""]
    /\ idx' = [idx EXCEPT ![p] = 1]
    /\ combined' = [combined EXCEPT ![p] = EmptyDict]
    /\ errors' = [errors EXCEPT ![p] = <<>>]
    /\ calls' = [calls EXCEPT ![p] = <<>>]
    /\ now_z' = [now_z EXCEPT ![p] = <<>>]
    /\ current_pairs' = [current_pairs EXCEPT ![p] = EmptyMap]
    /\ pairs_snapshot' = [pairs_snapshot EXCEPT ![p] = EmptyMap]
    /\ history_records' = [history_records EXCEPT ![p] = <<>>]
    /\ data' = [data EXCEPT ![p] = <<>>]
    /\ result' = [result EXCEPT ![p] = NoResult]
    /\ pre' = [pre EXCEPT ![p] = files]

\* run_update has returned or raised: its locals are gone and the caller
\* may start the next cycle.
Return(p) ==
    /\ pc[p] = "done"
    /\ pc' = [pc EXCEPT ![p] = "idle"]
    /\ proposed' = ProposedAfter(p)
    /\ DropLocals(p)
    /\ UNCHANGED <<files, fd, cycles, returned, reader>>

\* ------------------------------------------- the cycle, statement by statement
\* The cycles two processes run side by side: no source filter, CoinGecko
\* answering with a positive quote and ExchangeRate-API with a payload
\* that quotes none of the configured codes.
ConcLoops ==
    {run \in Loops({""}, {"json"}) :
        /\ run.loop.errors = <<>>
        /\ DOMAIN run.loop.combined.val = {PairKey(CRYPTO_CURRENCIES[1], BASE_CURRENCY)}
        /\ \A k \in DOMAIN run.loop.combined.val :
              RatePositive(run.loop.combined.val[k].rate)}

\* Lines 27-50 for one way `run` the client loop can go: the loop and the
\* all-failed test. The providers are the only thing this part touches.
Fetch(p, run) ==
    LET loop == run.loop
        stop == IF loop.raised # "" THEN loop.raised
                ELSE IF AllFailed(loop.combined, loop.errors) THEN "AllSourcesFailed"
                ELSE ""
    IN /\ source' = [source EXCEPT ![p] = run.source]
       /\ idx' = [idx EXCEPT ![p] = Len(loop.calls) + 1]
       /\ combined' = [combined EXCEPT ![p] = loop.combined]
       /\ errors' = [errors EXCEPT ![p] = loop.errors]
       /\ calls' = [calls EXCEPT ![p] = loop.calls]
       /\ returned' = ReturnedAfterAll(returned, loop.calls)
       /\ result' = [result EXCEPT ![p] =
                        IF stop = "" THEN NoResult
                        ELSE Raised(stop, IF loop.raised # "" THEN <<>> ELSE loop.errors)]
       /\ pc' = [pc EXCEPT ![p] = IF stop = "" THEN "fetched" ELSE "done"]

\* The start of a cycle run side by side with another.
Start(p) ==
    /\ pc[p] = "idle"
    /\ cycles < MaxCycles
    /\ cycles' = cycles + 1
    /\ pre' = [pre EXCEPT ![p] = files]
    /\ \E run \in ConcLoops : Fetch(p, run)
    /\ UNCHANGED <<files, fd, now_z, current_pairs, pairs_snapshot, history_records,
                   data, proposed, reader>>

\* The client loops of the cycles followed statement by statement: the
\* cycles filtered to CoinGecko, answering with an error status or any
\* well-formed payload, and the unfiltered cycles of ConcLoops.
StepLoops == Loops({"coingecko"}, {"http", "json"}) \cup ConcLoops

\* The start of a cycle that is followed statement by statement.
StartAny(p) ==
    /\ pc[p] = "idle"
    /\ cycles < MaxCycles
    /\ cycles' = cycles + 1
    /\ pre' = [pre EXCEPT ![p] = files]
    /\ \E run \in StepLoops : Fetch(p, run)
    /\ UNCHANGED <<files, fd, now_z, current_pairs, pairs_snapshot, history_records,
                   data, proposed, reader>>

\* Lines 53-97: now_z, the read of the snapshot file and the merge loop.
LoadAndMerge(p) ==
    /\ pc[p] = "fetched"
    /\ \E t \in Clock :
          LET cur == ReadPairs(files[RATES_FILE_PATH])
              m   == Merge(combined[p], cur)
          IN /\ now_z' = [now_z EXCEPT ![p] = UtcNowIsoZ(t)]
             /\ current_pairs' = [current_pairs EXCEPT ![p] = cur]
             /\ pairs_snapshot' = [pairs_snapshot EXCEPT ![p] = m.snap]
             /\ history_records' = [history_records EXCEPT ![p] = m.hist]
    /\ pc' = [pc EXCEPT ![p] = "merged"]
    /\ UNCHANGED <<files, fd, source, idx, combined, errors, calls, data, result, pre,
                   cycles, ghosts, reader>>

\* append_history up to its call of _atomic_write_json: the read of the
\* history file and the dedup.
HistRead(p) ==
    /\ pc[p] = "merged"
    /\ data' = [data EXCEPT ![p] = AppendHistory(files[HISTORY_FILE_PATH], history_records[p])]
    /\ pc' = [pc EXCEPT ![p] = "hist_open"]
    /\ UNCHANGED <<files, fd, source, idx, combined, errors, calls, now_z, current_pairs,
                   pairs_snapshot, history_records, result, pre, cycles, ghosts, reader>>

\* Where process p stands in its two calls of _atomic_write_json.
InHistoryWrite(p) == pc[p] \in {"hist_open", "hist_write", "hist_replace"}
InSnapshotWrite(p) == pc[p] \in {"snap_open", "snap_write", "snap_replace"}

\* The two writes in the other order: the snapshot file first.
WritePathSwapped(p) == IF InHistoryWrite(p) THEN RATES_FILE_PATH ELSE HISTORY_FILE_PATH

\* The arguments of the _atomic_write_json call process p is in.
WritePath(p) == IF InHistoryWrite(p) THEN HISTORY_FILE_PATH ELSE RATES_FILE_PATH
WriteDoc(p) ==
    IF InHistoryWrite(p) THEN HistoryDoc(data[p])
    ELSE SnapshotDoc(MergedPairs(current_pairs[p], pairs_snapshot[p]), now_z[p])

\* tmp.write_text(...), first half: open(tmp, "w") creates or truncates
\* the tmp file.
OpenTmp(p) ==
    /\ pc[p] \in {"hist_open", "snap_open"}
    /\ files' = [files EXCEPT ![TmpPath(WritePath(p))] = Truncated]
    /\ fd' = [fd EXCEPT ![p] = TmpPath(WritePath(p))]
    /\ pc' = [pc EXCEPT ![p] = IF InHistoryWrite(p) THEN "hist_write" ELSE "snap_write"]
    /\ UNCHANGED <<locals, cycles, ghosts, reader>>

\* tmp.write_text(...), second half: the text goes to the file the open
\* descriptor refers to, wherever a rename has moved it; then close.
WriteTmp(p) ==
    /\ pc[p] \in {"hist_write", "snap_write"}
    /\ files' = IF fd[p] \in FileNames THEN [files EXCEPT ![fd[p]] = WriteDoc(p)]
                ELSE files
    /\ fd' = [fd EXCEPT ![p] = "none"]
    /\ pc' = [pc EXCEPT ![p] = IF InHistoryWrite(p) THEN "hist_replace" ELSE "snap_replace"]
    /\ UNCHANGED <<locals, cycles, ghosts, reader>>

\* The descriptors after os.replace(tmp, path): one open on tmp now refers
\* to path, one open on the old path refers to a file without a name.
AfterReplace(tmp, path) ==
    [q \in DOMAIN fd |-> IF fd[q] = tmp THEN path
                         ELSE IF fd[q] = path THEN "unlinked"
                         ELSE fd[q]]

\* os.replace(tmp, path). FileNotFoundError if the tmp file is gone; after
\* the snapshot's replace run_update returns its result.
OsReplace(p) ==
    /\ pc[p] \in {"hist_replace", "snap_replace"}
    /\ LET path == WritePath(p)
           tmp  == TmpPath(path)
       IN IF files[tmp] = Missing
          THEN /\ result' = [result EXCEPT ![p] = Raised("FileNotFoundError", <<>>)]
               /\ pc' = [pc EXCEPT ![p] = "done"]
               /\ UNCHANGED <<files, fd>>
          ELSE /\ files' = [files EXCEPT ![path] = files[tmp], ![tmp] = Missing]
               /\ fd' = AfterReplace(tmp, path)
               /\ result' = [result EXCEPT ![p] =
                                IF InHistoryWrite(p) THEN result[p]
                                ELSE OkResult(pairs_snapshot[p], now_z[p], errors[p])]
               /\ pc' = [pc EXCEPT ![p] = IF InHistoryWrite(p) THEN "snap_open" ELSE "done"]
    /\ UNCHANGED <<source, idx, combined, errors, calls, now_z, current_pairs,
                   pairs_snapshot, history_records, data, pre, cycles, ghosts, reader>>

\* The process dies in the middle of run_update (kill, power loss): its
\* descriptor is closed, what it has written so far stays, and the next
\* cycle is run by a fresh process.
Crash(p) ==
    /\ pc[p] \notin {"idle", "done"}
    /\ pc' = [pc EXCEPT ![p] = "idle"]
    /\ fd' = [fd EXCEPT ![p] = "none"]
    /\ DropLocals(p)
    /\ UNCHANGED <<files, cycles, ghosts, reader>>

\* ------------------------------------------------------------ the reader
\* get_rate -> DatabaseManager.read_rates -> _load_json: ensure_storage()
\* and then path.read_text().
\* ensure_storage: `if not RATES_FILE.exists()`.
ReaderExists ==
    /\ rpc = "idle"
    /\ rpc' = IF files[RATES_FILE_PATH] = Missing THEN "ensure_open" ELSE "read"
    /\ seen' = Missing
    /\ UNCHANGED <<files, fd, pc, locals, cycles, ghosts, ask, quote, account>>

\* RATES_FILE.write_text("{}\n"), first half: open(path, "w").
ReaderEnsureOpen ==
    /\ rpc = "ensure_open"
    /\ files' = [files EXCEPT ![RATES_FILE_PATH] = Truncated]
    /\ fd' = [fd EXCEPT ![Reader] = RATES_FILE_PATH]
    /\ rpc' = "ensure_write"
    /\ UNCHANGED <<pc, locals, cycles, ghosts, seen, ask, quote, account>>

\* RATES_FILE.write_text("{}\n"), second half: write and close.
ReaderEnsureWrite ==
    /\ rpc = "ensure_write"
    /\ files' = IF fd[Reader] \in FileNames THEN [files EXCEPT ![fd[Reader]] = EmptyObject]
                ELSE files
    /\ fd' = [fd EXCEPT ![Reader] = "none"]
    /\ rpc' = "read"
    /\ UNCHANGED <<pc, locals, cycles, ghosts, seen, ask, quote, account>>

\* path.read_text(): the reader takes the file as it is at this instant.
ReaderRead ==
    /\ rpc = "read"
    /\ seen' = files[RATES_FILE_PATH]
    /\ rpc' = "idle"
    /\ UNCHANGED <<files, fd, pc, locals, cycles, ghosts, ask, quote, account>>

\* --------------------------------------------------------------- get_rate
\* SettingsLoader's default for RATES_TTL_SECONDS.
RATES_TTL_SECONDS == 300

\* ensure_storage(): a missing rates.json is created with the text "{}".
EnsureStorage(fs) ==
    IF fs[RATES_FILE_PATH] = Missing
    THEN [fs EXCEPT ![RATES_FILE_PATH] = EmptyObject]
    ELSE fs

\* _load_json(path, default={}) after ensure_storage, then read_rates'
\* isinstance(data, dict) test: the parsed object, or {} for a file that is
\* empty or holds no JSON object.
ReadRates(doc) == IF doc.st = "snapshot" THEN doc ELSE EmptyObject

\* cache.get("pairs"), None for an object without the key.
CachePairs(cache) ==
    IF cache.st = "snapshot" THEN [isdict |-> TRUE, val |-> cache.pairs]
    ELSE [isdict |-> FALSE, val |-> EmptyMap]

\* _parse_iso(dt): datetime.fromisoformat accepts the "...Z" strings the
\* clients write (Python 3.11 on) and yields an aware UTC datetime; any other
\* text here (empty, cut short) yields None.
ParseIso(dt) ==
    IF Len(dt) = 2 THEN [ok |-> TRUE, sec |-> TsVal(dt)] ELSE [ok |-> FALSE, sec |-> 0]

\* updated_at.isoformat() of an aware UTC datetime: the date and time
\* followed by the offset "+00:00" (hours and minutes) in place of "Z".
Isoformat(sec) == Strftime(sec) \o <<0, 0>>

\* float(info["rate"]): a stored float is itself; a missing key or a value
\* that is no number raises.
FloatOk(rate) == Len(rate) = 2

\* now - updated_at: whole seconds and microseconds. now is
\* datetime.now(timezone.utc), which carries microseconds.
Age(now, sec) == <<now[1] - sec, now[2]>>

\* The test with `>=`: an entry aged exactly the TTL is stale.
TimedeltaGeq(age, ttl) == age[1] >= ttl

\* `age > timedelta(seconds=ttl)`
TimedeltaGt(age, ttl) == age[1] > ttl \/ (age[1] = ttl /\ age[2] > 0)

\* What get_rate returns (kind "ok") or the condition it raises.
Quote(kind, pair, rate, updated_at, src) ==
    [kind |-> kind, pair |-> pair, rate |-> rate, updated_at |-> updated_at,
     source |-> src]

QuoteError(kind, pair) == Quote(kind, pair, <<>>, <<>>, "")

\* get_rate from `pairs = cache.get("pairs")` to its return: the cache-empty
\* test, the lookup, the timestamp parse, the TTL test, the rate parse.
GetRateQuote(cache, pair, now) ==
    LET pairs == CachePairs(cache)
    IN IF ~pairs.isdict \/ DOMAIN pairs.val = {}
       THEN QuoteError("CacheEmpty", pair)
       ELSE IF pair \notin DOMAIN pairs.val
       THEN QuoteError("PairNotCached", pair)
       ELSE LET info == pairs.val[pair]
                updated_at == ParseIso(info.updated_at)
            IN IF ~updated_at.ok
               THEN QuoteError("CorruptEntry", pair)
               ELSE IF TimedeltaGt(Age(now, updated_at.sec), RATES_TTL_SECONDS)
               THEN QuoteError("StaleEntry", pair)
               ELSE IF ~FloatOk(info.rate)
               THEN QuoteError("CorruptEntry", pair)
               ELSE Quote("ok", pair, info.rate, Isoformat(updated_at.sec), info.source)

\* The currency codes callers ask about: two registered codes and one the
\* registry does not know.
AskCodes == {"BTC", "USD", "DOGE"}

\* The readings of the reader's clock: the seconds at which records are
\* stamped and those around one TTL later, with and without a fraction of a
\* second.
AskNows ==
    {<<t + d, us>> : t \in Clock,
                     d \in {0, RATES_TTL_SECONDS - 1, RATES_TTL_SECONDS, RATES_TTL_SECONDS + 1},
                     us \in {0, 1}}

\* get_rate(from_currency, to_currency) from its first line to its return or
\* raise, called while no cycle is running: the registry lookups, then
\* read_rates (ensure_storage and the read of rates.json), then the tests
\* of GetRateQuote.
GetRate ==
    /\ rpc = "idle"
    /\ \A p \in Procs : pc[p] = "idle"
    /\ rpc' = "quoted"
    /\ \E from_code \in AskCodes, to_code \in AskCodes, now \in AskNows :
          /\ ask' = [from |-> from_code, to |-> to_code, now |-> now]
          /\ IF ~(GetCurrencyOk(from_code) /\ GetCurrencyOk(to_code))
             THEN /\ quote' = QuoteError("CurrencyNotFoundError", <<>>)
                  /\ seen' = Missing
                  /\ files' = files
             ELSE LET fs == EnsureStorage(files)
                  IN /\ files' = fs
                     /\ seen' = fs[RATES_FILE_PATH]
                     /\ quote' = GetRateQuote(ReadRates(fs[RATES_FILE_PATH]),
                                              PairKey(from_code, to_code), now)
    /\ UNCHANGED <<fd, pc, locals, cycles, ghosts, account>>

\* The caller of get_rate is done with the result.
GetRateReturn ==
    /\ rpc = "quoted"
    /\ rpc' = "idle"
    /\ seen' = Missing
    /\ ask' = NoAsk
    /\ quote' = NoQuote
    /\ UNCHANGED <<files, fd, pc, locals, cycles, ghosts, account>>

\* The snapshot files a get_rate call may find: none, an empty file, "{}", a
\* snapshot without pairs, and snapshots with one BTC_USD entry whose rate
\* is a float or is not a number and whose updated_at is a timestamp a
\* client wrote, empty, or cut short.
QuoteEntries ==
    {SnapshotEntry(rate, ts, "CoinGecko") :
        rate \in {Float(1), <<>>},
        ts \in {Strftime(t) : t \in Clock} \cup {<<>>, <<9>>}}

QuoteDocs ==
    LET last == UtcNowIsoZ(CHOOSE t \in Clock : \A u \in Clock : t <= u)
    IN {Missing, Truncated, EmptyObject, SnapshotDoc(EmptyMap, last)}
       \cup {SnapshotDoc((PairKey("BTC", BASE_CURRENCY) :> e), last) : e \in QuoteEntries}

\* get_rate applied to each of these files.
InitQuote ==
    /\ files \in {[f \in FileNames |-> IF f = RATES_FILE_PATH THEN d ELSE Missing] :
                     d \in QuoteDocs}
    /\ fd = [p \in Procs \cup {Reader} |-> "none"]
    /\ pc = [p \in Procs |-> "idle"]
    /\ source = [p \in Procs |-> ""]
    /\ idx = [p \in Procs |-> 1]
    /\ combined = [p \in Procs |-> EmptyDict]
    /\ errors = [p \in Procs |-> <<>>]
    /\ calls = [p \in Procs |-> <<>>]
    /\ now_z = [p \in Procs |-> <<>>]
    /\ current_pairs = [p \in Procs |-> EmptyMap]
    /\ pairs_snapshot = [p \in Procs |-> EmptyMap]
    /\ history_records = [p \in Procs |-> <<>>]
    /\ data = [p \in Procs |-> <<>>]
    /\ result = [p \in Procs |-> NoResult]
    /\ pre = [p \in Procs |-> files]
    /\ cycles = 0
    /\ proposed = [k \in Keys |-> 0]
    /\ returned = [k \in Keys |-> 0]
    /\ rpc = "idle"
    /\ seen = Missing
    /\ ask = NoAsk
    /\ quote = NoQuote
    /\ NoAccount

\* ---------------------------------------------------------- append_history
\* The records handed to append_history: BTC_USD records with each
\* timestamp (hence each id) and two rates, in batches of up to MaxBatch
\* records; a batch may name an id twice.
HistoryRecords ==
    {HistoryRecord("BTC", BASE_CURRENCY, rate, Strftime(t), "CoinGecko") :
        rate \in {Float(0), Float(1)}, t \in Clock}

Batches == UNION {[1..n -> HistoryRecords] : n \in 0..MaxBatch}

\* append_history(history_path, records) from its first line to its end:
\* the read of the history file, the dedup and the atomic write.
AppendHistoryCall ==
    /\ rpc = "idle"
    /\ \A p \in Procs : pc[p] = "idle"
    /\ Len(ReadHistory(files[HISTORY_FILE_PATH])) < MaxHistory
    /\ \E records \in Batches :
          files' = AtomicWriteJson(files, HISTORY_FILE_PATH,
                                   HistoryDoc(AppendHistory(files[HISTORY_FILE_PATH], records)))
    /\ UNCHANGED <<fd, pc, locals, cycles, ghosts, reader>>

\* The update-rates command, run while no get_rate call is under way.
UpdateRates ==
    /\ rpc = "idle"
    /\ RunUpdate(1)

\* ------------------------------------------------------------- portfolios
DEFAULT_BASE == "USD"

\* The codes wallets are held in, as sorted(wallets.keys()) orders them.
WalletCodes == <<"BTC", "EUR", "USD">>
SortedKeys(wallets) == SelectSeq(WalletCodes, LAMBDA c : c \in DOMAIN wallets)

\* _get_balance(wallets, code): 0.0 for a code that has no wallet.
GetBalance(wallets, code) == IF code \in DOMAIN wallets THEN wallets[code] ELSE 0

\* A _set_balance that stores the value as given.
SetBalanceUnclamped(wallets, code, value) ==
    [c \in DOMAIN wallets \cup {code} |-> IF c = code THEN value ELSE wallets[c]]

\* _set_balance(wallets, code, value): the wallet is created when missing
\* and a negative value is stored as 0.0.
SetBalance(wallets, code, value) ==
    [c \in DOMAIN wallets \cup {code} |->
        IF c = code THEN (IF value < 0 THEN 0 ELSE value) ELSE wallets[c]]

\* amount * rate for a rate n/d; the cached rates explored are whole numbers.
Times(x, rate) == (x * rate[1]) \div rate[2]

\* The readings of the clock during portfolio operations: one TTL after the
\* last second at which records are stamped, with and without a fraction.
\* A record stamped then is within the TTL at the first reading and past it
\* at the second; a record stamped earlier is past it at both.
Latest == CHOOSE t \in Clock : \A u \in Clock : u <= t
TradeNows == {<<Latest + RATES_TTL_SECONDS, us>> : us \in {0, 1}}

\* The line item with a cache failure valued at 0 instead of None.
PortfolioItemZero(code, balance, base, q) ==
    [currency |-> code, balance |-> balance,
     rate |-> IF code = base THEN <<Float(1)>> ELSE IF q.kind = "ok" THEN <<q.rate>> ELSE <<>>,
     value_in_base |-> IF code = base THEN <<balance>>
                       ELSE IF q.kind = "ok" THEN <<Times(balance, q.rate)>> ELSE <<0>>,
     source |-> IF code = base THEN "local" ELSE q.source]

\* The line item show_portfolio appends for one wallet: the base currency
\* is valued at 1.0 without a cache read; any other code is valued through
\* get_rate, whose result or ApiRequestError is q. An optional field is
\* <<>> for None and <<v>> for a value v.
PortfolioItem(code, balance, base, q) ==
    [currency |-> code, balance |-> balance,
     rate |-> IF code = base THEN <<Float(1)>> ELSE IF q.kind = "ok" THEN <<q.rate>> ELSE <<>>,
     value_in_base |-> IF code = base THEN <<balance>>
                       ELSE IF q.kind = "ok" THEN <<Times(balance, q.rate)>> ELSE <<>>,
     source |-> IF code = base THEN "local" ELSE q.source]

\* The loop `for code in sorted(wallets.keys())` with its running total and
\* rates_ok flag; nows[code] is the clock during get_rate(code, base).
RECURSIVE ShowLoop(_, _, _, _, _, _)
ShowLoop(codes, wallets, base, cache, nows, acc) ==
    IF codes = <<>> THEN acc
    ELSE LET code == Head(codes)
             q    == IF code = base THEN NoQuote
                     ELSE GetRateQuote(cache, PairKey(code, base), nows[code])
             item == PortfolioItem(code, GetBalance(wallets, code), base, q)
             ok   == code = base \/ q.kind = "ok"
         IN ShowLoop(Tail(codes), wallets, base, cache, nows,
                     [items    |-> Append(acc.items, item),
                      total    |-> IF ok THEN acc.total + item.value_in_base[1] ELSE acc.total,
                      rates_ok |-> acc.rates_ok /\ ok])

ShowBases == {"USD", "EUR", "DOGE"}

\* show_portfolio(user_id, base) from its first line to its return or raise.
ShowPortfolio ==
    /\ rpc = "idle"
    /\ \A p \in Procs : pc[p] = "idle"
    /\ \E base \in ShowBases :
          IF ~GetCurrencyOk(base)
          THEN /\ valuation' = [NoValuation EXCEPT !.kind = "CurrencyNotFoundError",
                                                   !.base = base]
               /\ files' = files
          ELSE \E nows \in [DOMAIN portfolios \ {base} -> TradeNows] :
               LET fs  == EnsureStorage(files)
                   acc == ShowLoop(SortedKeys(portfolios), portfolios, base,
                                   ReadRates(fs[RATES_FILE_PATH]), nows,
                                   [items |-> <<>>, total |-> 0, rates_ok |-> TRUE])
               IN /\ files' = fs
                  /\ valuation' = [kind |-> "ok", base |-> base, wallets |-> acc.items,
                                   total |-> acc.total, rates_ok |-> acc.rates_ok,
                                   nows |-> nows]
    /\ trade' = NoTrade
    /\ shown' = NoShown
    /\ UNCHANGED <<fd, pc, locals, cycles, ghosts, rpc, seen, ask, quote, portfolios, shell>>

\* buy_currency after a successful get_rate: the funds test and the two
\* _set_balance calls.
BuyAt(wallets, cur, base, qty, rate) ==
    LET cost        == Times(qty, rate)
        base_before == GetBalance(wallets, base)
        cur_before  == GetBalance(wallets, cur)
    IN IF cost > base_before
       THEN [kind |-> "InsufficientFundsError", wallets |-> wallets]
       ELSE [kind |-> "ok",
             wallets |-> SetBalance(SetBalance(wallets, base, base_before - cost),
                                    cur, cur_before + qty)]

\* A purchase that takes a failed cache read for a rate of 0.
BuyAtZeroRate(wallets, cur, base, qty, q) ==
    BuyAt(wallets, cur, base, qty, IF q.kind = "ok" THEN q.rate ELSE Float(0))

\* buy_currency from the get_rate call on: kind is how the call ends and
\* wallets what portfolios.json holds afterwards. An exception of get_rate
\* leaves buy_currency before anything is set or written.
BuyFrom(wallets, cur, base, qty, q) ==
    IF q.kind # "ok" THEN [kind |-> q.kind, wallets |-> wallets]
    ELSE BuyAt(wallets, cur, base, qty, q.rate)

\* sell_currency from the get_rate call on.
SellFrom(wallets, cur, base, qty, q) ==
    IF q.kind # "ok" THEN [kind |-> q.kind, wallets |-> wallets]
    ELSE LET proceeds    == Times(qty, q.rate)
             cur_before  == GetBalance(wallets, cur)
             base_before == GetBalance(wallets, base)
         IN [kind |-> "ok",
             wallets |-> SetBalance(SetBalance(wallets, cur, cur_before - qty),
                                    base, base_before + proceeds)]

\* The arguments of buy and sell: two registered codes and one the registry
\* does not know; an amount that is not positive and two that are.
TradeCodes == {"BTC", "USD", "DOGE"}
Amounts == {0, 1, 2}

Traded(op, kind, currency, amount, q, now) ==
    [op |-> op, kind |-> kind, currency |-> currency, amount |-> amount,
     quote |-> q, now |-> now, before |-> portfolios]

\* buy_currency(user_id, currency, amount) from its first line to its
\* return or raise.
BuyCurrency ==
    /\ rpc = "idle"
    /\ \A p \in Procs : pc[p] = "idle"
    /\ \E currency \in TradeCodes, amount \in Amounts, now \in TradeNows :
          IF ~GetCurrencyOk(currency)
          THEN /\ trade' = Traded("buy", "CurrencyNotFoundError", currency, amount,
                                  NoQuote, <<0, 0>>)
               /\ UNCHANGED <<files, portfolios>>
          ELSE IF amount <= 0
          THEN /\ trade' = Traded("buy", "ValidationError", currency, amount,
                                  NoQuote, <<0, 0>>)
               /\ UNCHANGED <<files, portfolios>>
          ELSE LET fs  == EnsureStorage(files)
                   q   == GetRateQuote(ReadRates(fs[RATES_FILE_PATH]),
                                       PairKey(currency, DEFAULT_BASE), now)
                   res == BuyFrom(portfolios, currency, DEFAULT_BASE, amount, q)
               IN /\ files' = fs
                  /\ portfolios' = res.wallets
                  /\ trade' = Traded("buy", res.kind, currency, amount, q, now)
    /\ valuation' = NoValuation
    /\ shown' = NoShown
    /\ UNCHANGED <<fd, pc, locals, cycles, ghosts, rpc, seen, ask, quote, shell>>

\* sell_currency(user_id, currency, amount) from its first line to its
\* return or raise: the funds test comes before the get_rate call.
SellCurrency ==
    /\ rpc = "idle"
    /\ \A p \in Procs : pc[p] = "idle"
    /\ \E currency \in TradeCodes, amount \in Amounts, now \in TradeNows :
          IF ~GetCurrencyOk(currency)
          THEN /\ trade' = Traded("sell", "CurrencyNotFoundError", currency, amount,
                                  NoQuote, <<0, 0>>)
               /\ UNCHANGED <<files, portfolios>>
          ELSE IF amount <= 0
          THEN /\ trade' = Traded("sell", "ValidationError", currency, amount,
                                  NoQuote, <<0, 0>>)
               /\ UNCHANGED <<files, portfolios>>
          ELSE IF amount > GetBalance(portfolios, currency)
          THEN /\ trade' = Traded("sell", "InsufficientFundsError", currency, amount,
                                  NoQuote, <<0, 0>>)
               /\ files' = EnsureStorage(files)
               /\ portfolios' = portfolios
          ELSE LET fs  == EnsureStorage(files)
                   q   == GetRateQuote(ReadRates(fs[RATES_FILE_PATH]),
                                       PairKey(currency, DEFAULT_BASE), now)
                   res == SellFrom(portfolios, currency, DEFAULT_BASE, amount, q)
               IN /\ files' = fs
                  /\ portfolios' = res.wallets
                  /\ trade' = Traded("sell", res.kind, currency, amount, q, now)
    /\ valuation' = NoValuation
    /\ shown' = NoShown
    /\ UNCHANGED <<fd, pc, locals, cycles, ghosts, rpc, seen, ask, quote, shell>>

\* The snapshot files portfolio operations meet: none, "{}", and snapshots
\* in which BTC_USD is absent, sound, or damaged in the rate or the
\* timestamp, and EUR_USD is absent or sound.
PortfolioEntries ==
    {SnapshotEntry(rate, ts, "CoinGecko") :
        rate \in {Float(2), <<>>}, ts \in {Strftime(t) : t \in Clock} \cup {<<>>}}

PortfolioDocs ==
    LET last == UtcNowIsoZ(Latest)
        btc  == PairKey("BTC", BASE_CURRENCY)
        eur  == PairKey("EUR", BASE_CURRENCY) :>
                    SnapshotEntry(Reciprocal(1), last, "ExchangeRate-API")
    IN {Missing, EmptyObject, SnapshotDoc(EmptyMap, last), SnapshotDoc(eur, last)}
       \cup {SnapshotDoc((btc :> b), last) : b \in PortfolioEntries}
       \cup {SnapshotDoc((btc :> b) @@ eur, last) : b \in PortfolioEntries}

\* The wallets deposits have left in portfolios.json.
InitWallets == UNION {[SeqToSet(ks) -> {2}] : ks \in SubSeqs(WalletCodes)}

\* Portfolio operations against each of these files and wallets.
InitPortfolio ==
    /\ files \in {[f \in FileNames |-> IF f = RATES_FILE_PATH THEN d ELSE Missing] :
                     d \in PortfolioDocs}
    /\ fd = [p \in Procs \cup {Reader} |-> "none"]
    /\ pc = [p \in Procs |-> "idle"]
    /\ source = [p \in Procs |-> ""]
    /\ idx = [p \in Procs |-> 1]
    /\ combined = [p \in Procs |-> EmptyDict]
    /\ errors = [p \in Procs |-> <<>>]
    /\ calls = [p \in Procs |-> <<>>]
    /\ now_z = [p \in Procs |-> <<>>]
    /\ current_pairs = [p \in Procs |-> EmptyMap]
    /\ pairs_snapshot = [p \in Procs |-> EmptyMap]
    /\ history_records = [p \in Procs |-> <<>>]
    /\ data = [p \in Procs |-> <<>>]
    /\ result = [p \in Procs |-> NoResult]
    /\ pre = [p \in Procs |-> files]
    /\ cycles = 0
    /\ proposed = [k \in Keys |-> 0]
    /\ returned = [k \in Keys |-> 0]
    /\ rpc = "idle"
    /\ seen = Missing
    /\ ask = NoAsk
    /\ quote = NoQuote
    /\ portfolios \in InitWallets
    /\ valuation = NoValuation
    /\ trade = NoTrade
    /\ shown = NoShown
    /\ session = NoSession
    /\ users = <<>>

\* ------------------------------------------------------ the get-rate command
\* One printed line: its label, the pair and the rate.
RateLine(label, from, to, rate) == [label |-> label, pair |-> <<from, to>>, rate |-> rate]

\* 1.0 / rate, and 0.0 for a rate of 0.
Invert(rate) == IF rate[1] = 0 THEN Float(0) ELSE <<rate[2], rate[1]>>

\* The get-rate command of the CLI: get_rate(from, to) and its line, then
\* get_rate(to, from) for the inverse line, with 1 / rate in its place when
\* that call raises ApiRequestError. An exception of the first call ends the
\* command with an error message. derived records which way the inverse
\* rate was obtained; it is not part of what is printed.
GetRateCommand ==
    /\ rpc = "idle"
    /\ \A p \in Procs : pc[p] = "idle"
    /\ \E from_code \in AskCodes, to_code \in AskCodes, now \in AskNows :
          /\ ask' = [from |-> from_code, to |-> to_code, now |-> now]
          /\ IF ~(GetCurrencyOk(from_code) /\ GetCurrencyOk(to_code))
             THEN /\ quote' = QuoteError("CurrencyNotFoundError", <<>>)
                  /\ shown' = [NoShown EXCEPT !.cmd = "get-rate",
                                               !.kind = "CurrencyNotFoundError"]
                  /\ files' = files
             ELSE \E later \in {l \in AskNows : l[1] > now[1] \/ (l[1] = now[1] /\ l[2] >= now[2])} :
                  LET fs  == EnsureStorage(files)
                      r   == GetRateQuote(ReadRates(fs[RATES_FILE_PATH]),
                                          PairKey(from_code, to_code), now)
                      inv == GetRateQuote(ReadRates(fs[RATES_FILE_PATH]),
                                          PairKey(to_code, from_code), later)
                  IN /\ files' = fs
                     /\ quote' = r
                     /\ shown' = IF r.kind # "ok"
                                 THEN [NoShown EXCEPT !.cmd = "get-rate", !.kind = r.kind]
                                 ELSE [cmd |-> "get-rate", kind |-> "ok",
                                       lines |-> <<RateLine("Kurs", from_code, to_code, r.rate),
                                                   RateLine("Obratnyj kurs", to_code, from_code,
                                                            IF inv.kind = "ok" THEN inv.rate
                                                            ELSE Invert(r.rate))>>,
                                       derived |-> inv.kind # "ok"]
    /\ UNCHANGED <<fd, pc, locals, cycles, ghosts, rpc, seen, portfolios, valuation, trade, shell>>

\* ---------------------------------------------------------- specifications
\* Sequential cycles of one process, each run to its end.
Next ==
    \/ RunUpdate(1)
    \/ Return(1)

Spec == Init /\ [][Next]_vars

\* Two processes run cycles statement by statement (a scheduler and an
\* update-rates command), either may die at any statement, and a reader
\* reads the snapshot file at any time.
NextConc ==
    \/ \E p \in Procs :
          \/ Start(p)
          \/ LoadAndMerge(p)
          \/ HistRead(p)
          \/ OpenTmp(p)
          \/ WriteTmp(p)
          \/ OsReplace(p)
          \/ Return(p)
          \/ Crash(p)
    \/ ReaderExists
    \/ ReaderEnsureOpen
    \/ ReaderEnsureWrite
    \/ ReaderRead

SpecConc == Init /\ [][NextConc]_vars

\* Cycles of one process, each run to its end, with get_rate calls between
\* them.
NextCache ==
    \/ UpdateRates
    \/ Return(1)
    \/ GetRate
    \/ GetRateReturn

SpecCache == Init /\ [][NextCache]_vars

\* Sequential cycles of one process with a wider choice of source filters.
NextFilter ==
    \/ RunUpdateFiltered(1)
    \/ Return(1)

SpecFilter == Init /\ [][NextFilter]_vars

\* Sequential cycles of one process whose configuration names a currency
\* code the registry does not know.
NextForeign ==
    \/ RunUpdateForeign(1)
    \/ Return(1)

SpecForeign == Init /\ [][NextForeign]_vars

\* show_portfolio, buy_currency and sell_currency calls, one after another.
NextPortfolio ==
    \/ ShowPortfolio
    \/ BuyCurrency
    \/ SellCurrency

SpecPortfolio == InitPortfolio /\ [][NextPortfolio]_vars

\* get-rate commands against a snapshot file that nothing rewrites.
NextCommand == GetRateCommand

SpecCommand == InitQuote /\ [][NextCommand]_vars

\* Cycles of one process, statement by statement; the process may die at
\* any statement and the next cycle is then run by a fresh process.
NextSteps ==
    \/ StartAny(1)
    \/ LoadAndMerge(1)
    \/ HistRead(1)
    \/ OpenTmp(1)
    \/ WriteTmp(1)
    \/ OsReplace(1)
    \/ Return(1)
    \/ Crash(1)

SpecSteps == Init /\ [][NextSteps]_vars

\* Sequential cycles of one process whose two clients quote the same pair.
NextOverlap ==
    \/ RunUpdateOverlap(1)
    \/ Return(1)

SpecOverlap == Init /\ [][NextOverlap]_vars

\* ------------------------------------------------------------ run_periodic
\* `updater.run_update()` inside the try of the while loop: a cycle with
\* no source argument.
RunPeriodicUpdate(p) ==
    /\ pc[p] = "idle"
    /\ cycles < MaxCycles
    /\ cycles' = cycles + 1
    /\ pc' = [pc EXCEPT ![p] = "done"]
    /\ pre' = [pre EXCEPT ![p] = files]
    /\ \E run \in Loops({""}, MainKinds) : Cycle(p, run)
    /\ UNCHANGED <<fd, proposed, reader>>

\* The end of the try statement: a return and an ApiRequestError (the one
\* run_update raises when every source failed, logged by the except
\* clause) go on to time.sleep, any other exception leaves run_periodic.
RunPeriodicExcept(p) ==
    /\ pc[p] = "done"
    /\ pc' = [pc EXCEPT ![p] = IF result[p].kind \in {"ok", "AllSourcesFailed"}
                               THEN "sleep" ELSE "terminated"]
    /\ proposed' = ProposedAfter(p)
    /\ DropLocals(p)
    /\ UNCHANGED <<files, fd, cycles, returned, reader>>

\* time.sleep(interval_seconds) returns and the loop starts over.
RunPeriodicSleep(p) ==
    /\ pc[p] = "sleep"
    /\ pc' = [pc EXCEPT ![p] = "idle"]
    /\ UNCHANGED <<files, fd, locals, cycles, ghosts, reader>>

\* The scheduler: run_periodic(updater, interval_seconds) on its own.
NextPeriodic ==
    \/ RunPeriodicUpdate(1)
    \/ RunPeriodicExcept(1)
    \/ RunPeriodicSleep(1)

SpecPeriodic == Init /\ [][NextPeriodic]_vars

\* get_rate calls against a snapshot file that nothing rewrites.
NextQuote ==
    \/ GetRate
    \/ GetRateReturn

SpecQuote == InitQuote /\ [][NextQuote]_vars

\* append_history applied to batch after batch.
NextHistory == AppendHistoryCall

SpecHistory == Init /\ [][NextHistory]_vars

\* ------------------------------------------------------------- properties
\* The pairs in the snapshot file now, and when process p's cycle started.
Stored == ReadPairs(files[RATES_FILE_PATH])
StoredBefore(p) == ReadPairs(pre[p][RATES_FILE_PATH])

\* The pairs the clients of p's cycle handed to the merge and were on disk.
Offered(p) == DOMAIN combined[p].val \cap DOMAIN StoredBefore(p)

\* p's cycle has run to its return.
Completed(p) == pc[p] = "done" /\ result[p].kind = "ok"

\* The clients the filter of p's cycle lets through, and whether each of
\* them was called and failed.
Selected(p) == {i \in 1..Len(clients) : ~FilteredOut(clients[i], source[p])}
FailedCalls(p) == {i \in 1..Len(calls[p]) : calls[p][i].kind # "ok"}
AllSelectedFailed(p) ==
    /\ Selected(p) # {}
    /\ Len(calls[p]) = Cardinality(Selected(p))
    /\ FailedCalls(p) = 1..Len(calls[p])

\* C1: after any sequence of cycles, for every pair key the stored entry
\* carries the latest timestamp among all records any client has returned
\* for that key in any cycle so far.
C1_StoredIsFreshestReturned ==
    \A k \in Keys :
        returned[k] > 0 =>
            /\ k \in DOMAIN Stored
            /\ TsVal(Stored[k].updated_at) = returned[k]

\* C2: for every pair key, the updated_at in the snapshot file after a
\* cycle is not earlier than the one the file held before the cycle.
C2_UpdatedAtNeverDecreases ==
    \A k \in DOMAIN StoredBefore(1) :
        /\ k \in DOMAIN Stored
        /\ TsVal(Stored[k].updated_at) >= TsVal(StoredBefore(1)[k].updated_at)

\* A cycle has completed in which a client returned a record older than the
\* stored entry of its pair.
C2_Witness ==
    /\ Completed(1)
    /\ \E k \in Offered(1) :
          TsVal(combined[1].val[k].timestamp) < TsVal(StoredBefore(1)[k].updated_at)

\* C3: in a completed cycle, a fetched record whose timestamp is equal to or
\* older than the updated_at of the stored entry of its pair leaves that
\* entry as it was and is not counted in `updated`; a strictly newer one
\* replaces the entry, and `updated` counts exactly the new and the
\* replaced entries.
C3_TieOrOlderIsSkipped ==
    Completed(1) =>
        /\ \A k \in Offered(1) :
              LET old == StoredBefore(1)[k]
                  new == combined[1].val[k]
              IN /\ k \in DOMAIN Stored
                 /\ IF TsVal(new.timestamp) <= TsVal(old.updated_at)
                    THEN Stored[k] = old
                    ELSE Stored[k] = SnapshotEntry(new.rate, new.timestamp, new.source)
        /\ result[1].updated =
              Cardinality({k \in DOMAIN combined[1].val :
                              \/ k \notin DOMAIN StoredBefore(1)
                              \/ TsVal(combined[1].val[k].timestamp)
                                    > TsVal(StoredBefore(1)[k].updated_at)})

\* A cycle has completed in which a client returned, for a stored pair, a
\* record with the stored timestamp and another rate, and nothing was
\* counted as updated.
C3_Witness ==
    /\ Completed(1)
    /\ result[1].updated = 0
    /\ \E k \in Offered(1) :
          /\ combined[1].val[k].timestamp = StoredBefore(1)[k].updated_at
          /\ combined[1].val[k].rate # StoredBefore(1)[k].rate

\* C4: once an earlier cycle has merged a record for a pair, a cycle that
\* merges a record for that pair with the same or an older timestamp
\* leaves the stored entry exactly as it found it.
C4_RemergeLeavesEntry ==
    Completed(1) =>
        \A k \in DOMAIN combined[1].val :
            (proposed[k] > 0 /\ TsVal(combined[1].val[k].timestamp) <= proposed[k]) =>
                /\ k \in DOMAIN StoredBefore(1)
                /\ k \in DOMAIN Stored
                /\ Stored[k] = StoredBefore(1)[k]

\* A cycle has completed in which a client returned again the very record
\* an earlier cycle stored (same rate, same timestamp, same source).
C4_Witness ==
    /\ Completed(1)
    /\ \E k \in Offered(1) :
          /\ proposed[k] = TsVal(combined[1].val[k].timestamp)
          /\ StoredBefore(1)[k] = SnapshotEntry(combined[1].val[k].rate,
                                                combined[1].val[k].timestamp,
                                                combined[1].val[k].source)

\* C5: when both clients are called and exactly one of them fails,
\* run_update returns normally with updated > 0 and a non-empty errors list.
C5_OneOfTwoFails ==
    (/\ pc[1] = "done"
     /\ Len(calls[1]) = 2
     /\ Cardinality(FailedCalls(1)) = 1) =>
        /\ result[1].kind = "ok"
        /\ result[1].updated > 0
        /\ result[1].errors # <<>>

\* C6: when every selected client fails, run_update fails with
\* AllSourcesFailed and leaves the snapshot file and the history file as
\* they were.
C6_AllFailLeavesFiles ==
    (pc[1] = "done" /\ AllSelectedFailed(1)) =>
        /\ result[1].kind = "AllSourcesFailed"
        /\ files = pre[1]

\* C7: a cycle in which at least one selected client returned successfully,
\* even with zero pairs, does not fail with AllSourcesFailed (the direction
\* of the equivalence that C6 does not state).
C7_SuccessNeverAllSourcesFailed ==
    (pc[1] = "done" /\ \E i \in 1..Len(calls[1]) : calls[1][i].kind = "ok") =>
        result[1].kind # "AllSourcesFailed"

\* C8: whatever makes one client fail, the cycle goes on: every selected
\* client is called, each failure is one string in errors, and run_update
\* ends by returning or by AllSourcesFailed, never by a client's exception.
C8_FailureDoesNotAbort ==
    pc[1] = "done" =>
        /\ Len(calls[1]) = Cardinality(Selected(1))
        /\ Len(errors[1]) = Cardinality(FailedCalls(1))
        /\ result[1].kind \in {"ok", "AllSourcesFailed"}

\* C9: whenever the reader reads the snapshot file, also while cycles are
\* persisting or after one has died, it gets a whole file: the "{}" of an
\* empty cache or a complete snapshot, never a file that is partly written.
C9_ReaderSeesWholeFile == seen.st \in {"missing", "{}", "snapshot"}

\* C10: at most one cycle at a time is between loading the snapshot and
\* persisting the merged snapshot.
C10_MergeAndPersistSerialized ==
    Cardinality({p \in Procs : pc[p] \in {"merged", "hist_open", "hist_write",
                                          "hist_replace", "snap_open",
                                          "snap_write", "snap_replace"}}) <= 1

\* C11: a get_rate call, whether it succeeds or fails and whether or not the
\* snapshot file exists yet, leaves the snapshot file and the history file
\* (and their tmp files) exactly as they were.
C11_GetRateWritesNothing ==
    [][(rpc = "idle" /\ rpc' = "quoted") => files' = files]_vars

\* The entry get_rate was asked about, as the snapshot file holds it, and
\* whether its rate and its timestamp can be parsed.
AskedPair == PairKey(ask.from, ask.to)
AskedEntry == Stored[AskedPair]
Answered == rpc = "quoted" /\ quote.kind # "CurrencyNotFoundError"
Parseable(entry) == Len(entry.updated_at) = 2 /\ Len(entry.rate) = 2

\* now - updated_at in microseconds.
AskedAgeUs == (ask.now[1] - TsVal(AskedEntry.updated_at)) * 1000000 + ask.now[2]

\* C12: for an entry whose rate and timestamp parse, get_rate raises
\* StaleEntry when updated_at = now - TTL - 1s, succeeds when
\* updated_at = now - TTL + 1s, and in general raises StaleEntry exactly when
\* now - updated_at is strictly more than the TTL of 300 s (and succeeds
\* otherwise).
C12_TtlBoundaryExact ==
    (Answered /\ AskedPair \in DOMAIN Stored /\ Parseable(AskedEntry)) =>
        /\ AskedAgeUs = (RATES_TTL_SECONDS + 1) * 1000000 => quote.kind = "StaleEntry"
        /\ AskedAgeUs = (RATES_TTL_SECONDS - 1) * 1000000 => quote.kind = "ok"
        /\ quote.kind = "StaleEntry" <=> AskedAgeUs > RATES_TTL_SECONDS * 1000000
        /\ quote.kind \in {"ok", "StaleEntry"}

\* get_rate has raised StaleEntry for a parseable entry stamped exactly one
\* second more than the TTL before now.
C12_Witness ==
    /\ Answered
    /\ AskedPair \in DOMAIN Stored
    /\ Parseable(AskedEntry)
    /\ AskedAgeUs = (RATES_TTL_SECONDS + 1) * 1000000
    /\ quote.kind = "StaleEntry"

\* The call was made within the TTL of the asked entry's timestamp.
AskedWithinTtl == AskedAgeUs >= 0 /\ AskedAgeUs <= RATES_TTL_SECONDS * 1000000

\* C13: once a cycle has stored a record for a pair with timestamp T, a
\* get_rate call for that pair made within the TTL of T succeeds and returns
\* exactly the rate, the updated_at string and the source of that record.
C13_FreshRecordIsQuoted ==
    (Answered /\ AskedPair \in DOMAIN Stored /\ AskedWithinTtl) =>
        /\ quote.kind = "ok"
        /\ quote.rate = AskedEntry.rate
        /\ quote.updated_at = AskedEntry.updated_at
        /\ quote.source = AskedEntry.source

C15_CorruptEntryReported ==
    (Answered /\ AskedPair \in DOMAIN Stored /\ ~Parseable(AskedEntry)) =>
        quote.kind = "CorruptEntry"

\* C16: for a registered code c, get_rate(c, c) succeeds with rate 1.0 in
\* every state of the cache and does not read the snapshot file.
C16_IdentityPairIsOne ==
    (rpc = "quoted" /\ ask.from = ask.to /\ GetCurrencyOk(ask.from)) =>
        /\ quote.kind = "ok"
        /\ quote.rate = Float(1)
        /\ seen = Missing

\* The records in the history file.
History == ReadHistory(files[HISTORY_FILE_PATH])

\* C17: after any sequence of append_history calls, with any batches (also a
\* batch that names the same id twice), no two records of the history file
\* have the same id.
C17_HistoryIdsUnique ==
    \A i, j \in DOMAIN History : i # j => History[i].id # History[j].id

\* The records the history file held when process p's cycle started.
HistoryBefore(p) == ReadHistory(pre[p][HISTORY_FILE_PATH])

\* C18: every record the history file held before a cycle is still there
\* after it, unchanged and at the same position; hence a record written by
\* one cycle stays in place through every later cycle.
C18_HistoryAppendOnly ==
    \A i \in DOMAIN HistoryBefore(1) :
        /\ i \in DOMAIN History
        /\ History[i] = HistoryBefore(1)[i]

\* A cycle has completed that found records in the history file and
\* appended to them.
C18_Witness ==
    /\ Completed(1)
    /\ HistoryBefore(1) # <<>>
    /\ Len(History) > Len(HistoryBefore(1))

\* The records p's cycle added to the history file.
Appended(p) == SubSeq(History, Len(HistoryBefore(p)) + 1, Len(History))

\* C19: the records a completed cycle appends to the history are exactly
\* the accepted ones, those that created or replaced a snapshot entry; a
\* record skipped as a tie or as older than the stored entry is not appended.
C19_HistoryHoldsAcceptedOnly ==
    Completed(1) =>
        {<<r.from_currency, r.to_currency>> : r \in SeqToSet(Appended(1))}
            = DOMAIN pairs_snapshot[1]

\* The pairs dict process p's cycle handed to write_rates_snapshot.
WrittenPairs(p) == MergedPairs(current_pairs[p], pairs_snapshot[p])

Matching(p) == {i \in 1..Len(clients) : Contains(ClassNameLower(clients[i]), source[p])}

\* The clients p's cycle has called.
Called(p) == {i \in 1..Len(clients) : \E j \in 1..Len(calls[p]) : calls[p][j].client = clients[i]}

\* C21: a cycle that no client's exception cut short has called exactly the
\* clients whose name contains the source filter, and all clients when no
\* filter is given.
C21_FilterSelectsBySubstring ==
    (pc[1] = "done" /\ result[1].kind \in {"ok", "AllSourcesFailed"}) =>
        Called(1) = IF source[1] = "" THEN 1..Len(clients) ELSE Matching(1)

\* C22: a fetched record whose pair names a code the registry does not know
\* reaches neither the snapshot nor the history and does not abort the
\* cycle: the cycle returns normally, and every valid record of the same
\* cycle is in the history and is merged into the snapshot (it creates or
\* replaces the entry when it is newer, and leaves the entry otherwise).
C22_UnknownCodeIsDropped ==
    (pc[1] = "done" /\ combined[1].keys # <<>>) =>
        /\ result[1].kind = "ok"
        /\ \A k \in DOMAIN combined[1].val :
              LET new == combined[1].val[k]
                  rec == HistoryRecord(k[1], k[2], new.rate, new.timestamp, new.source)
              IN IF k[1] \in REGISTRY /\ k[2] \in REGISTRY
                 THEN /\ \E i \in DOMAIN History : History[i].id = rec.id
                      /\ k \in DOMAIN Stored
                      /\ Stored[k] =
                            IF /\ k \in DOMAIN StoredBefore(1)
                               /\ TsVal(new.timestamp) <= TsVal(StoredBefore(1)[k].updated_at)
                            THEN StoredBefore(1)[k]
                            ELSE SnapshotEntry(new.rate, new.timestamp, new.source)
                 ELSE /\ k \notin DOMAIN Stored
                      /\ \A i \in DOMAIN History :
                            <<History[i].from_currency, History[i].to_currency>> # k

\* A cycle has completed whose client returned a JPY_USD record ahead of a
\* EUR_USD record, and the EUR_USD record is the stored entry.
C22_Witness ==
    /\ Completed(1)
    /\ combined[1].keys = <<PairKey("JPY", BASE_CURRENCY), PairKey("EUR", BASE_CURRENCY)>>
    /\ PairKey("EUR", BASE_CURRENCY) \in DOMAIN pairs_snapshot[1]
    /\ PairKey("EUR", BASE_CURRENCY) \in DOMAIN Stored

\* C23: however a provider answers (network failure, a status that is not
\* 200, a body that is not JSON, a well-formed payload), a call of
\* fetch_rates ends by returning or by ApiRequestError, never by another
\* kind of exception.
C23_FetchFailsOnlyWithApiRequestError ==
    \A i \in DOMAIN calls[1] : calls[1][i].kind \in {"ok", "ApiRequestError"}

\* C24: no call of fetch_rates fails because a well-formed response lacks a
\* configured currency: the only failures are those of the network, the
\* status, the payload as a whole and a quote that is not positive.
C24_MissingCurrencyIsOmitted ==
    \A i \in DOMAIN errors[1] : errors[1][i].reason # "format"

\* C26: every rate in the snapshot file and in the history file is strictly
\* positive, whatever quotes the providers sent.
C26_StoredRatesPositive ==
    /\ \A k \in DOMAIN Stored : RatePositive(Stored[k].rate)
    /\ \A i \in DOMAIN History : RatePositive(History[i].rate)

\* C25: the scheduler never leaves its loop because a cycle failed: after
\* every cycle, whatever its outcome, it sleeps and starts the next one.
C25_SchedulerSurvivesFailure == pc[1] # "terminated"

\* The snapshot's entry for pair k can be quoted at the clock reading now:
\* it exists, its rate and timestamp parse and its age is at most the TTL.
Quotable(k, now) ==
    /\ k \in DOMAIN Stored
    /\ Parseable(Stored[k])
    /\ (now[1] - TsVal(Stored[k].updated_at)) * 1000000 + now[2]
           <= RATES_TTL_SECONDS * 1000000

\* The sum of value_in_base over the line items numbered in S.
RECURSIVE SumValues(_, _)
SumValues(items, S) ==
    IF S = {} THEN 0
    ELSE LET i == CHOOSE j \in S : TRUE
         IN items[i].value_in_base[1] + SumValues(items, S \ {i})

\* C27: show_portfolio with a registered base currency always returns; it
\* lists every wallet once; a wallet in the base currency is valued at its
\* balance; any other wallet is valued at balance * rate when the snapshot's
\* entry for its pair can be quoted and is unpriced (value_in_base None)
\* when the cache is empty, the pair is missing or the entry is corrupt or
\* stale; rates_ok is false exactly when some item is unpriced, and the
\* total is the sum over the priced items.
C27_UnpricedItemsAreMarked ==
    (valuation.kind # "none" /\ valuation.base \in REGISTRY) =>
        LET items  == valuation.wallets
            base   == valuation.base
            priced == {i \in DOMAIN items :
                          \/ items[i].currency = base
                          \/ Quotable(PairKey(items[i].currency, base),
                                      valuation.nows[items[i].currency])}
        IN /\ valuation.kind = "ok"
           /\ {items[i].currency : i \in DOMAIN items} = DOMAIN portfolios
           /\ Len(items) = Cardinality(DOMAIN portfolios)
           /\ \A i \in DOMAIN items :
                 /\ items[i].balance = portfolios[items[i].currency]
                 /\ items[i].value_in_base =
                       IF i \notin priced THEN <<>>
                       ELSE IF items[i].currency = base THEN <<items[i].balance>>
                       ELSE <<Times(items[i].balance,
                                    Stored[PairKey(items[i].currency, base)].rate)>>
           /\ valuation.rates_ok = (priced = DOMAIN items)
           /\ valuation.total = SumValues(items, priced)

\* A valuation in USD of three wallets in which BTC is unpriced while EUR
\* and USD are valued.
C27_Witness ==
    /\ valuation.kind = "ok"
    /\ valuation.base = DEFAULT_BASE
    /\ Len(valuation.wallets) = 3
    /\ valuation.wallets[1].value_in_base = <<>>
    /\ valuation.wallets[2].value_in_base # <<>>
    /\ ~valuation.rates_ok
    /\ valuation.total = valuation.wallets[2].value_in_base[1] + valuation.wallets[3].balance

\* C28: when buy_currency or sell_currency has called get_rate and the
\* snapshot's entry for the traded pair cannot be quoted, the call fails
\* with get_rate's condition and portfolios.json holds the balances it held
\* before the call.
C28_FailedRateLeavesBalances ==
    (/\ trade.op # "none"
     /\ trade.quote.kind # "none"
     /\ ~Quotable(PairKey(trade.currency, DEFAULT_BASE), trade.now)) =>
        /\ trade.kind \in {"CacheEmpty", "PairNotCached", "CorruptEntry", "StaleEntry"}
        /\ trade.kind = trade.quote.kind
        /\ portfolios = trade.before

\* A purchase the base wallet could pay for, refused because the entry of
\* the pair is stale.
C28_Witness ==
    /\ trade.op = "buy"
    /\ trade.kind = "StaleEntry"
    /\ trade.amount = 1
    /\ GetBalance(trade.before, DEFAULT_BASE) = 2
    /\ portfolios = trade.before

\* C29: when the inverse rate the get-rate command prints was computed as
\* 1 / rate instead of read from the inverse pair's own entry, its line is
\* marked: it does not carry the label of a rate that was read.
C29_DerivedRateIsFlagged ==
    (shown.kind = "ok" /\ shown.derived) => shown.lines[2].label # "Obratnyj kurs"

\* C30: in a cycle, nothing is written before the client loop has called
\* every selected client; the history file is replaced first and the
\* snapshot file only after it. Between the two writes, where the cycle may
\* stop, the history file holds the records of the cycle (after those it
\* held before) and the snapshot file is the whole file of before the
\* cycle; a process that dies leaves both files as they are.
C30_HistoryThenSnapshot ==
    [][/\ pc[1] \in {"fetched", "merged", "hist_open", "hist_write", "hist_replace"} =>
             /\ files[HISTORY_FILE_PATH] = pre[1][HISTORY_FILE_PATH]
             /\ files[RATES_FILE_PATH] = pre[1][RATES_FILE_PATH]
       /\ pc[1] \notin {"idle", "done"} =>
             Len(calls[1]) = Cardinality(Selected(1))
       /\ pc[1] \in {"snap_open", "snap_write", "snap_replace"} =>
             /\ files[RATES_FILE_PATH] = pre[1][RATES_FILE_PATH]
             /\ files[RATES_FILE_PATH].st \in {"missing", "{}", "snapshot"}
             /\ files[HISTORY_FILE_PATH].st = "history"
             /\ SubSeq(History, 1, Len(HistoryBefore(1))) = HistoryBefore(1)
             /\ \A i \in DOMAIN history_records[1] :
                   \E j \in DOMAIN History : History[j].id = history_records[1][i].id
             /\ (pc'[1] = "idle" => files' = files)
      ]_vars

\* A cycle between its two writes: it has appended a record to a history
\* that held one, and its merge will replace a stored entry.
C30_Witness ==
    /\ pc[1] = "snap_replace"
    /\ Len(History) = 2
    /\ Len(HistoryBefore(1)) = 1
    /\ DOMAIN StoredBefore(1) # {}
    /\ DOMAIN pairs_snapshot[1] # {}
    /\ Stored = StoredBefore(1)

\* C31: when both clients of a cycle return a record for the same pair
\* key, the candidate handed to the merge is the record of the client that
\* comes later in the client list, whichever of the two timestamps is the
\* later one, and the snapshot entry after the cycle is that record or, if
\* that record is not newer than the entry on disk, the entry on disk.
C31_LaterClientWins ==
    \A k \in DOMAIN combined[1].val :
        (/\ pc[1] = "done"
         /\ Len(calls[1]) = 2
         /\ calls[1][1].kind = "ok" /\ DictHas(calls[1][1].data, k)
         /\ calls[1][2].kind = "ok" /\ DictHas(calls[1][2].data, k)) =>
            LET later == calls[1][2].data.val[k]
            IN /\ combined[1].val[k] = later
               /\ result[1].kind = "ok"
               /\ k \in DOMAIN Stored
               /\ Stored[k] =
                     IF k \in DOMAIN StoredBefore(1)
                        /\ TsVal(later.timestamp) <= TsVal(StoredBefore(1)[k].updated_at)
                     THEN StoredBefore(1)[k]
                     ELSE SnapshotEntry(later.rate, later.timestamp, later.source)

\* Both clients returned BTC_USD, the earlier client's record carries the
\* later timestamp, and the stored entry is the later client's record.
C31_Witness ==
    LET k == PairKey("BTC", BASE_CURRENCY)
    IN /\ Completed(1)
       /\ Len(calls[1]) = 2
       /\ calls[1][1].kind = "ok" /\ DictHas(calls[1][1].data, k)
       /\ calls[1][2].kind = "ok" /\ DictHas(calls[1][2].data, k)
       /\ TsVal(calls[1][1].data.val[k].timestamp) > TsVal(calls[1][2].data.val[k].timestamp)
       /\ k \in DOMAIN Stored
       /\ Stored[k].source = "ExchangeRate-API"
       /\ Stored[k].updated_at = calls[1][2].data.val[k].timestamp

\* C32: a completed cycle leaves in the snapshot file every pair key the
\* file held before, adds exactly the pair keys of the accepted records, and
\* leaves unchanged every entry whose pair was not fetched or whose fetched
\* record was skipped (as not newer, or for an unknown code).
C32_SnapshotIsUnion ==
    Completed(1) =>
        /\ DOMAIN Stored = DOMAIN StoredBefore(1) \cup DOMAIN pairs_snapshot[1]
        /\ \A k \in DOMAIN StoredBefore(1) :
              (\/ k \notin DOMAIN combined[1].val
               \/ k[1] \notin REGISTRY \/ k[2] \notin REGISTRY
               \/ TsVal(combined[1].val[k].timestamp) <= TsVal(StoredBefore(1)[k].updated_at)) =>
                  Stored[k] = StoredBefore(1)[k]

\* A completed cycle that fetched and accepted one pair while the file held
\* an entry for another pair, which the cycle did not fetch.
C32_Witness ==
    /\ Completed(1)
    /\ \E k \in DOMAIN StoredBefore(1) : k \notin DOMAIN combined[1].val
    /\ \E k \in DOMAIN pairs_snapshot[1] : k \notin DOMAIN StoredBefore(1)
    /\ Cardinality(DOMAIN Stored) = 2

\* C33: in a cycle that has ended, the calls of fetch_rates are those of the
\* selected clients, one call each, in the order of the client list, and
\* the errors list has one entry for each call that failed, in that order.
C33_EachClientOnceInOrder ==
    pc[1] = "done" =>
        /\ [i \in 1..Len(calls[1]) |-> calls[1][i].client]
              = SelectSeq(clients, LAMBDA c : ~FilteredOut(c, source[1]))
        /\ [i \in 1..Len(errors[1]) |-> errors[1][i].client]
              = SelectSeq([i \in 1..Len(calls[1]) |->
                              IF calls[1][i].kind = "ok" THEN "" ELSE calls[1][i].client],
                          LAMBDA c : c # "")

\* C34: after any sequence of cycles from empty files, every entry of the
\* snapshot file has its record in the history file: for the entry of pair
\* key K with (rate, updated_at, source) there is a record with the id made
\* of K and updated_at, for that pair, carrying that rate, timestamp and
\* source.
C34_SnapshotEntriesInHistory ==
    \A k \in DOMAIN Stored :
        \E i \in DOMAIN History :
            /\ History[i].id = <<k[1], k[2], Stored[k].updated_at>>
            /\ History[i].from_currency = k[1]
            /\ History[i].to_currency = k[2]
            /\ History[i].rate = Stored[k].rate
            /\ History[i].timestamp = Stored[k].updated_at
            /\ History[i].source = Stored[k].source

\* The second cycle has completed; the snapshot holds an entry written by
\* the first cycle and one written by the second, and the history holds
\* more records than the snapshot has entries.
C34_Witness ==
    /\ Completed(1)
    /\ cycles = 2
    /\ Cardinality(DOMAIN Stored) = 2
    /\ Cardinality(DOMAIN StoredBefore(1)) = 1
    /\ Len(History) > 2

\* The pair keys whose snapshot entry after p's cycle is not the entry the
\* snapshot held before it (an entry that was absent before counts).
Changed(p) ==
    {k \in DOMAIN Stored : k \notin DOMAIN StoredBefore(p) \/ Stored[k] # StoredBefore(p)[k]}
        \cup (DOMAIN StoredBefore(p) \ DOMAIN Stored)

\* C35: the updated count a successful cycle returns is the number of pair
\* keys whose snapshot entry differs between the snapshot before and after
\* the cycle, and the last_refresh in the file is the last_refresh the cycle
\* returned, also when updated = 0.
C35_UpdatedCountsChangedEntries ==
    Completed(1) =>
        /\ result[1].updated = Cardinality(Changed(1))
        /\ files[RATES_FILE_PATH].st = "snapshot"
        /\ files[RATES_FILE_PATH].last_refresh = result[1].last_refresh

\* A completed second cycle that fetched a pair the snapshot held and
\* changed nothing: it returned updated = 0, and the file carries its
\* last_refresh, which is later than the one the first cycle wrote.
C35_Witness ==
    /\ Completed(1)
    /\ Offered(1) # {}
    /\ result[1].updated = 0
    /\ pre[1][RATES_FILE_PATH].st = "snapshot"
    /\ pre[1][RATES_FILE_PATH].last_refresh # result[1].last_refresh
    /\ files[RATES_FILE_PATH].last_refresh = result[1].last_refresh

\* ------------------------------------------------------------ the wallets
\* deposit_funds(user_id, currency, amount) from its first line to its
\* return or raise: the code and the amount are validated, then the balance
\* is read, raised by the amount and written.
DepositFunds ==
    /\ rpc = "idle"
    /\ \A p \in Procs : pc[p] = "idle"
    /\ \E currency \in TradeCodes, amount \in Amounts :
          IF ~GetCurrencyOk(currency)
          THEN /\ trade' = Traded("deposit", "CurrencyNotFoundError", currency, amount,
                                  NoQuote, <<0, 0>>)
               /\ UNCHANGED <<files, portfolios>>
          ELSE IF amount <= 0
          THEN /\ trade' = Traded("deposit", "ValidationError", currency, amount,
                                  NoQuote, <<0, 0>>)
               /\ UNCHANGED <<files, portfolios>>
          ELSE LET before == GetBalance(portfolios, currency)
                   after  == before + amount
               IN /\ after <= MaxBalance
                  /\ files' = EnsureStorage(files)
                  /\ portfolios' = SetBalance(portfolios, currency, after)
                  /\ trade' = Traded("deposit", "ok", currency, amount, NoQuote, <<0, 0>>)
    /\ valuation' = NoValuation
    /\ shown' = NoShown
    /\ UNCHANGED <<fd, pc, locals, cycles, ghosts, rpc, seen, ask, quote, shell>>

\* No balance in portfolios.json is above the bound.
Bounded == \A c \in DOMAIN portfolios : portfolios[c] <= MaxBalance

\* The snapshot files deposits and trades meet: "{}", and snapshots whose
\* BTC_USD entry carries a rate of 2 or of -2 (CoinGeckoClient stores the
\* number it is sent, whatever its sign).
WalletDocs ==
    LET last == UtcNowIsoZ(Latest)
    IN {EmptyObject}
       \cup {SnapshotDoc((PairKey("BTC", BASE_CURRENCY) :>
                              SnapshotEntry(Float(rate), Strftime(Latest), "CoinGecko")), last) :
                rate \in {2, 0 - 2}}

\* A portfolio that holds no wallets, as register_user creates it.
InitWallet ==
    /\ files \in {[f \in FileNames |-> IF f = RATES_FILE_PATH THEN d ELSE Missing] :
                     d \in WalletDocs}
    /\ fd = [p \in Procs \cup {Reader} |-> "none"]
    /\ pc = [p \in Procs |-> "idle"]
    /\ source = [p \in Procs |-> ""]
    /\ idx = [p \in Procs |-> 1]
    /\ combined = [p \in Procs |-> EmptyDict]
    /\ errors = [p \in Procs |-> <<>>]
    /\ calls = [p \in Procs |-> <<>>]
    /\ now_z = [p \in Procs |-> <<>>]
    /\ current_pairs = [p \in Procs |-> EmptyMap]
    /\ pairs_snapshot = [p \in Procs |-> EmptyMap]
    /\ history_records = [p \in Procs |-> <<>>]
    /\ data = [p \in Procs |-> <<>>]
    /\ result = [p \in Procs |-> NoResult]
    /\ pre = [p \in Procs |-> files]
    /\ cycles = 0
    /\ proposed = [k \in Keys |-> 0]
    /\ returned = [k \in Keys |-> 0]
    /\ rpc = "idle"
    /\ seen = Missing
    /\ ask = NoAsk
    /\ quote = NoQuote
    /\ NoAccount

\* Deposits, purchases and sales on one portfolio, in any order.
NextWallet ==
    \/ DepositFunds
    \/ BuyCurrency /\ Bounded'
    \/ SellCurrency /\ Bounded'

SpecWallet == InitWallet /\ [][NextWallet]_vars

\* C37: after any sequence of deposit_funds, buy_currency and sell_currency
\* calls no balance in portfolios.json is negative; a purchase whose cost is
\* above the balance of the base currency, and a sale of more than the
\* balance of the currency sold, raise InsufficientFundsError and leave
\* portfolios.json as it was.
C37_BalancesNeverNegative ==
    /\ \A c \in DOMAIN portfolios : portfolios[c] >= 0
    /\ (/\ trade.op = "buy"
        /\ trade.quote.kind = "ok"
        /\ Times(trade.amount, trade.quote.rate) > GetBalance(trade.before, DEFAULT_BASE)) =>
           (trade.kind = "InsufficientFundsError" /\ portfolios = trade.before)
    /\ (/\ trade.op = "sell"
        /\ GetCurrencyOk(trade.currency)
        /\ trade.amount > 0
        /\ trade.amount > GetBalance(trade.before, trade.currency)) =>
           (trade.kind = "InsufficientFundsError" /\ portfolios = trade.before)

\* A sale at a negative rate has just taken more from the base wallet than
\* it held, and the wallet is at 0.
C37_Witness ==
    /\ trade.op = "sell"
    /\ trade.kind = "ok"
    /\ GetBalance(trade.before, DEFAULT_BASE) + Times(trade.amount, trade.quote.rate) < 0
    /\ portfolios[DEFAULT_BASE] = 0

\* ------------------------------------------------------- the command shell
\* str.strip() on a name written as a sequence of characters.
RECURSIVE Strip(_)
Strip(s) ==
    IF s = <<>> THEN s
    ELSE IF Head(s) = " " THEN Strip(Tail(s))
    ELSE IF s[Len(s)] = " " THEN Strip(SubSeq(s, 1, Len(s) - 1))
    ELSE s

\* _hash_password(password, salt): the digest of password + salt, written
\* as the text that is digested.
HashPassword(password, salt) == password \o salt

\* _next_user_id(users): one more than the largest user_id, 1 for no users.
NextUserId(us) ==
    IF us = <<>> THEN 1
    ELSE 1 + (CHOOSE m \in {us[i].user_id : i \in DOMAIN us} :
                 \A i \in DOMAIN us : us[i].user_id <= m)

\* _find_user_by_username(users, username): the index of the first record
\* with that name, 0 for None.
FindUserByUsername(us, username) ==
    IF \E i \in DOMAIN us : us[i].username = username
    THEN CHOOSE i \in DOMAIN us :
             /\ us[i].username = username
             /\ \A j \in 1..(i - 1) : us[j].username # username
    ELSE 0

\* How a call of register_user or login_user ends: kind and the message of
\* the exception, whether users.json was read, the list users.json holds
\* afterwards, and the returned user_id and username.
Outcome(kind, msg, read, us, user_id, username) ==
    [kind |-> kind, msg |-> msg, read |-> read, users |-> us,
     user_id |-> user_id, username |-> username]

\* register_user(username, password) with the salt create_new draws.
RegisterUser(us, username, password, salt) ==
    LET name == Strip(username)
    IN IF name = <<>>
       THEN Outcome("ValidationError", "Imya polzovatelya ne mozhet byt pustym",
                    FALSE, us, None, None)
       ELSE IF Len(password) < 4
       THEN Outcome("ValidationError", "Parol dolzhen byt ne koroche 4 simvolov",
                    FALSE, us, None, None)
       ELSE IF FindUserByUsername(us, name) # 0
       THEN Outcome("ValidationError", "Imya polzovatelya uzhe zanyato",
                    TRUE, us, None, None)
       ELSE LET user_id == NextUserId(us)
                user == [user_id |-> user_id, username |-> name,
                         hashed_password |-> HashPassword(password, salt),
                         salt |-> salt]
            IN Outcome("ok", "", TRUE, Append(us, user), Some(user_id), Some(name))

\* login_user(username, password).
LoginUser(us, username, password) ==
    LET name == Strip(username)
    IN IF name = <<>>
       THEN Outcome("ValidationError", "Imya polzovatelya ne mozhet byt pustym",
                    FALSE, us, None, None)
       ELSE IF Len(password) < 4
       THEN Outcome("ValidationError", "Parol dolzhen byt ne koroche 4 simvolov",
                    FALSE, us, None, None)
       ELSE IF FindUserByUsername(us, name) = 0
       THEN Outcome("ValidationError", "Polzovatel ne najden", TRUE, us, None, None)
       ELSE LET record == us[FindUserByUsername(us, name)]
            IN IF HashPassword(password, record.salt) # record.hashed_password
               THEN Outcome("ValidationError", "Nevernyj parol", TRUE, us, None, None)
               ELSE Outcome("ok", "", TRUE, us, Some(record.user_id),
                            Some(record.username))

\* The names and passwords typed: one name that can be registered, with and
\* without a blank before it, a name nobody registers, a blank and an empty
\* name; two passwords long enough and one too short; the salts drawn.
Alice == <<"a">>
RegisterNames == {Alice, <<" ", "a">>, <<" ">>}
LoginNames == RegisterNames \cup {<<"b">>, <<>>}
Passwords == {<<"1", "2", "3", "4">>, <<"4", "3", "2", "1">>, <<"1", "2", "3">>}
Salts == {<<"s">>, <<"t">>}

\* What a command of the shell leaves on the screen.
Shown(cmd, kind, msg) == [cmd |-> cmd, kind |-> kind, lines |-> <<msg>>, derived |-> FALSE]

\* The register command: register_user and its line, or the message of its
\* exception. The portfolio record register_user adds holds no wallets.
MainRegister ==
    /\ rpc = "idle"
    /\ \A p \in Procs : pc[p] = "idle"
    /\ \E username \in RegisterNames, password \in Passwords, salt \in Salts :
          LET res == RegisterUser(users, username, password, salt)
          IN /\ users' = res.users
             /\ files' = IF res.read THEN EnsureStorage(files) ELSE files
             /\ shown' = Shown("register", res.kind,
                               IF res.kind = "ok" THEN "zaregistrirovan" ELSE res.msg)
    /\ trade' = NoTrade
    /\ valuation' = NoValuation
    /\ UNCHANGED <<fd, pc, locals, cycles, ghosts, rpc, seen, ask, quote, portfolios, session>>

\* The login command: the session takes the user_id and the username that
\* login_user returns; an exception leaves the session as it was.
MainLogin ==
    /\ rpc = "idle"
    /\ \A p \in Procs : pc[p] = "idle"
    /\ \E username \in LoginNames, password \in Passwords :
          LET res == LoginUser(users, username, password)
          IN /\ session' = IF res.kind = "ok"
                           THEN [user_id |-> res.user_id, username |-> res.username]
                           ELSE session
             /\ files' = IF res.read THEN EnsureStorage(files) ELSE files
             /\ shown' = Shown("login", res.kind,
                               IF res.kind = "ok" THEN "Vy voshli kak" ELSE res.msg)
    /\ trade' = NoTrade
    /\ valuation' = NoValuation
    /\ UNCHANGED <<fd, pc, locals, cycles, ghosts, rpc, seen, ask, quote, portfolios, users>>

\* A test for the commands of a logged-in user that leaves deposit out.
NeedsLoginButDeposit(cmd) == cmd \in {"show-portfolio", "buy", "sell"}

\* `if cmd in {"show-portfolio", "deposit", "buy", "sell"}`
NeedsLogin(cmd) == cmd \in {"show-portfolio", "deposit", "buy", "sell"}

\* A command that ends in the shell itself with an exception: nothing but
\* the screen changes.
Caught(cmd, kind, msg) ==
    /\ shown' = Shown(cmd, kind, msg)
    /\ trade' = NoTrade
    /\ valuation' = NoValuation
    /\ UNCHANGED <<files, fd, pc, locals, cycles, ghosts, rpc, seen, ask, quote,
                   portfolios, shell>>

\* One of the four portfolio commands: the login test, then the use case
\* called with int(session["user_id"]), which raises TypeError for None.
MainPortfolioCommand(cmd) ==
    IF NeedsLogin(cmd) /\ session.user_id = None
    THEN Caught(cmd, "ValidationError", "Snachala vypolnite login")
    ELSE IF session.user_id = None
    THEN Caught(cmd, "Exception", "TypeError")
    ELSE CASE cmd = "show-portfolio" -> ShowPortfolio
           [] cmd = "deposit" -> DepositFunds
           [] cmd = "buy" -> BuyCurrency /\ Bounded'
           [] cmd = "sell" -> SellCurrency /\ Bounded'

PortfolioCommands == {"show-portfolio", "deposit", "buy", "sell"}

\* users.json as main finds it: empty, or with one user registered in an
\* earlier run of the shell, whose portfolio holds no wallets or one.
InitUsers ==
    {<<>>} \cup {RegisterUser(<<>>, Alice, <<"1", "2", "3", "4">>, salt).users : salt \in Salts}

InitShell ==
    /\ files \in {[f \in FileNames |-> IF f = RATES_FILE_PATH THEN d ELSE Missing] :
                     d \in WalletDocs}
    /\ fd = [p \in Procs \cup {Reader} |-> "none"]
    /\ pc = [p \in Procs |-> "idle"]
    /\ source = [p \in Procs |-> ""]
    /\ idx = [p \in Procs |-> 1]
    /\ combined = [p \in Procs |-> EmptyDict]
    /\ errors = [p \in Procs |-> <<>>]
    /\ calls = [p \in Procs |-> <<>>]
    /\ now_z = [p \in Procs |-> <<>>]
    /\ current_pairs = [p \in Procs |-> EmptyMap]
    /\ pairs_snapshot = [p \in Procs |-> EmptyMap]
    /\ history_records = [p \in Procs |-> <<>>]
    /\ data = [p \in Procs |-> <<>>]
    /\ result = [p \in Procs |-> NoResult]
    /\ pre = [p \in Procs |-> files]
    /\ cycles = 0
    /\ proposed = [k \in Keys |-> 0]
    /\ returned = [k \in Keys |-> 0]
    /\ rpc = "idle"
    /\ seen = Missing
    /\ ask = NoAsk
    /\ quote = NoQuote
    /\ users \in InitUsers
    /\ portfolios \in IF users = <<>> THEN {EmptyMap}
                      ELSE {EmptyMap, (DEFAULT_BASE :> 2)}
    /\ valuation = NoValuation
    /\ trade = NoTrade
    /\ shown = NoShown
    /\ session = NoSession

\* One run of the shell: commands typed in any order.
NextShell ==
    \/ MainRegister
    \/ MainLogin
    \/ \E cmd \in PortfolioCommands : MainPortfolioCommand(cmd)

SpecShell == InitShell /\ [][NextShell]_vars

\* C36: in the shell, while no user is logged in (user_id is None), a
\* show-portfolio, deposit, buy or sell command ends with the "login first"
\* ValidationError, no use case of the portfolio is called and
\* portfolios.json stays as it was; user_id becomes non-None only by a login
\* command that succeeded for a user of users.json, and takes that user's
\* id.
C36_LoginBeforePortfolioCommands ==
    [][session.user_id = None =>
          /\ portfolios' = portfolios
          /\ trade' = NoTrade
          /\ valuation' = NoValuation
          /\ shown'.cmd \in {"register", "login"} \cup PortfolioCommands
          /\ shown'.cmd \in PortfolioCommands =>
                /\ shown'.kind = "ValidationError"
                /\ shown'.lines = <<"Snachala vypolnite login">>
          /\ session'.user_id # None =>
                /\ shown'.cmd = "login"
                /\ shown'.kind = "ok"
                /\ \E i \in DOMAIN users :
                      /\ session'.user_id = Some(users[i].user_id)
                      /\ session'.username = Some(users[i].username)]_vars

\* Nobody is logged in, a user is registered and the portfolio holds a
\* wallet, and the last command was a deposit that was turned away.
C36_Witness ==
    /\ session.user_id = None
    /\ users # <<>>
    /\ portfolios # EmptyMap
    /\ shown.cmd = "deposit"
    /\ shown.kind = "ValidationError"

====
